---- MODULE Spec2Model ----
(***************************************************************************)
(* Adaptive scoring engine of stress_dost_apii: the stress-meter engine    *)
(* (MeterCalculator), the difficulty controller (DifficultyAdjuster) and   *)
(* the personality profiler (PersonalityAssessor).                         *)
(*                                                                         *)
(* Number representation.  The Python code works on floats; the model      *)
(* uses exact integer arithmetic on fixed units:                           *)
(*   - trigger values and all type/context multipliers are multiples of    *)
(*     0.05 and are held in twentieths (0.90 -> 18, 1.20 -> 24);           *)
(*   - repeat factors are held in ten-thousandths (0.95 -> 9500);          *)
(*   - an impact is therefore an integer count of 1/(20*20*20*10000);      *)
(*   - meters are held in thousandths (1.0 -> 1000);                       *)
(*   - times are held in hundredths of a second (3.5 s -> 350);            *)
(*   - quiz scores and personality values are held in hundredths.          *)
(***************************************************************************)
EXTENDS Integers, Sequences, FiniteSets, TLC

VARIABLES
    calibration,        \* MeterCalculator.calibration (StudentCalibration)
    meter_state,        \* the session's MeterState
    trigger_history,    \* MeterCalculator.trigger_history: text -> count
    updates,            \* dict returned by the last calculate_meter_update
    response,           \* the TriggerResponse handed to the engine
    budget,             \* responses the engine may still process (model bound)
    performance_window, \* DifficultyAdjuster.performance_window
    current_difficulty, \* last value of get_difficulty_adjustment()
    questions,          \* PersonalityAssessor.questions (shuffled, truncated)
    quiz_responses,     \* argument of analyze_responses
    result,             \* value returned by analyze_responses
    user_sessions,      \* app.user_sessions: session id -> UserSession
    reply,              \* the route and status code of the last HTTP answer
    clock,              \* datetime.now(), in minutes
    popup_selector,     \* a PopupSelector with its TraitWeighting
    selection,          \* arguments and result of the last select_popup
    selection_log,      \* the popups select_popup returned (a record of the run)
    tag_weights,        \* arguments and result of the last calculate_tag_weights
    session_manager,    \* a SessionManager (the personality tracker)
    threads,            \* the requests being served: position and locals of each
    ended_sessions,     \* the ids end_session has removed (a record of the run)
    generation,         \* arguments and result of the last validate_generation
    trigger_session,    \* the trigger bookkeeping of a UserSession
    delivery,           \* arguments and result of the last get_next_trigger
    sheets_logger,      \* app.sheets_logger and the rows of its worksheet
    performance_log,    \* the add_performance calls made (a record of the run)
    personalized_groq_generator, \* whether app.personalized_groq_generator is set
    tag_picks,          \* the tags select_popup_with_weighting chose (a record of the run)
    triggers_dataset,   \* app.TRIGGERS_DATASET
    processed_triggers  \* app.PROCESSED_TRIGGERS

vars ==
    << calibration, meter_state, trigger_history, updates, response, budget,
       performance_window, current_difficulty, questions, quiz_responses,
       result, user_sessions, reply, clock,
       popup_selector, selection, selection_log, tag_weights, session_manager,
       threads,
       ended_sessions, generation, trigger_session, delivery, sheets_logger,
       performance_log, personalized_groq_generator, tag_picks, triggers_dataset,
       processed_triggers >>

meterVars == << calibration, meter_state, trigger_history, updates, response, budget >>
difficultyVars == << performance_window, current_difficulty >>
profilerVars == << questions, quiz_responses, result >>
appVars == << user_sessions, reply, clock >>
selectorVars == << popup_selector, selection, selection_log, tag_weights >>
trackerVars == << session_manager >>
datasetVars == << triggers_dataset, processed_triggers >>
serviceVars ==
    << generation, trigger_session, delivery, sheets_logger, performance_log,
       personalized_groq_generator, tag_picks, datasetVars >>
extVars == << appVars, selectorVars, trackerVars, threads, ended_sessions, serviceVars >>

Min(a, b) == IF a <= b THEN a ELSE b
Max(a, b) == IF a >= b THEN a ELSE b

(***************************************************************************)
(* Bounds of the model.                                                    *)
(***************************************************************************)
MaxResponses == 2
MaxRepeat == 23
QuestionLimit == 2

(***************************************************************************)
(* StudentCalibration                                                      *)
(***************************************************************************)
None == 0 - 1

BASELINE_REACTION_TIME == 300

ProcessingSpeeds == {"fast", "normal", "slow"}

\* quick/slow multipliers in hundredths
quick_multiplier(cal) ==
    IF cal.processing_speed = "fast" THEN 70
    ELSE IF cal.processing_speed = "normal" THEN 85 ELSE 100

slow_multiplier(cal) ==
    IF cal.processing_speed = "fast" THEN 150
    ELSE IF cal.processing_speed = "normal" THEN 130 ELSE 120

\* thresholds in ten-thousandths of a second (time * multiplier)
time_thresholds(cal) ==
    [ quick    |-> cal.baseline_reaction_time * quick_multiplier(cal),
      moderate |-> cal.baseline_reaction_time * 100,
      slow     |-> cal.baseline_reaction_time * slow_multiplier(cal) ]

categorize_response_time(cal, time_taken) ==
    IF time_taken * 100 <= time_thresholds(cal).quick THEN "quick"
    ELSE IF time_taken * 100 <= time_thresholds(cal).slow THEN "moderate"
    ELSE "slow"

(***************************************************************************)
(* MeterCalculator: constants                                              *)
(***************************************************************************)
DECAY_FACTOR == 950
MAX_METER == 1000
MIN_METER == 0
\* repeat factors, in ten-thousandths
FACTOR_ONE == 10000
SENSITIZATION_RATE == 1000
HABITUATION_RATE == 1000
SENSITIZATION_CAP == 9500
HABITUATION_FLOOR == 1000

\* one whole unit of impact: value(1/20) * type(1/20) * repeat(1/10000) * context(1/20)
ImpactOne == 20 * 20 * 20 * FACTOR_ONE

(***************************************************************************)
(* MeterCalculator: base impact (value and multiplier in twentieths,       *)
(* result in 1/400)                                                        *)
(***************************************************************************)
_calculate_option_based_impact(trigger_value, selected_option) ==
    LET multiplier ==
            CASE selected_option = 0 -> 18
              [] selected_option = 1 -> 5
              [] selected_option = 2 -> 10
              [] OTHER -> 10
    IN  trigger_value * multiplier

SarcasmSlowOnly(trigger_value, response_time_category, answer_correct) ==
    trigger_value * (IF response_time_category = "slow" THEN 20 ELSE 7)

_calculate_sarcasm_impact(trigger_value, response_time_category, answer_correct) ==
    LET multiplier ==
            IF response_time_category = "slow"
            THEN (IF answer_correct THEN 12 ELSE 20)
            ELSE (IF answer_correct THEN 2 ELSE 7)
    IN  trigger_value * multiplier

calculate_base_impact(trigger_type, trigger_value, response_time_category, answer_correct, selected_option) ==
    IF trigger_type = "option_based"
    THEN _calculate_option_based_impact(trigger_value, selected_option)
    ELSE IF trigger_type = "sarcasm"
    THEN _calculate_sarcasm_impact(trigger_value, response_time_category, answer_correct)
    ELSE IF trigger_type = "motivation"
    THEN trigger_value * 20
    ELSE 0

(***************************************************************************)
(* MeterCalculator: repeat modifier (result in 1/(400*10000))              *)
(***************************************************************************)
RECURSIVE habituation_factor(_)
\* (1.0 - HABITUATION_RATE) ** repeat_count, truncated to ten-thousandths
habituation_factor(repeat_count) ==
    IF repeat_count = 0 THEN FACTOR_ONE
    ELSE (habituation_factor(repeat_count - 1) * (FACTOR_ONE - HABITUATION_RATE))
             \div FACTOR_ONE

sensitization_factor(repeat_count) ==
    FACTOR_ONE + SENSITIZATION_RATE * repeat_count

HistoryCount(history, trigger_text) ==
    IF trigger_text \in DOMAIN history THEN history[trigger_text] ELSE 0

RepeatNoCap(history, trigger_text, base_impact, previous_response_was_negative) ==
    LET repeat_count == HistoryCount(history, trigger_text)
    IN  IF repeat_count = 0 THEN base_impact * FACTOR_ONE
        ELSE IF previous_response_was_negative
        THEN base_impact * sensitization_factor(repeat_count)
        ELSE Max(base_impact * habituation_factor(repeat_count),
                 base_impact * HABITUATION_FLOOR)

RepeatNoFloor(history, trigger_text, base_impact, previous_response_was_negative) ==
    LET repeat_count == HistoryCount(history, trigger_text)
    IN  IF repeat_count = 0 THEN base_impact * FACTOR_ONE
        ELSE IF previous_response_was_negative
        THEN Min(base_impact * sensitization_factor(repeat_count),
                 base_impact * SENSITIZATION_CAP)
        ELSE base_impact * habituation_factor(repeat_count)

apply_repeat_modifier(history, trigger_text, base_impact, previous_response_was_negative) ==
    LET repeat_count == HistoryCount(history, trigger_text)
    IN  IF repeat_count = 0 THEN base_impact * FACTOR_ONE
        ELSE IF previous_response_was_negative
        THEN Min(base_impact * sensitization_factor(repeat_count),
                 base_impact * SENSITIZATION_CAP)
        ELSE Max(base_impact * habituation_factor(repeat_count),
                 base_impact * HABITUATION_FLOOR)

(***************************************************************************)
(* MeterCalculator: performance-context modifier (modifier in twentieths)  *)
(***************************************************************************)
apply_performance_context_modifier(cal, base_impact, main_question_time, main_question_correct) ==
    LET time_category == categorize_response_time(cal, main_question_time)
        modifier ==
            IF main_question_correct /\ time_category = "quick" THEN 17
            ELSE IF main_question_correct /\ time_category = "moderate" THEN 20
            ELSE IF main_question_correct /\ time_category = "slow" THEN 20
            ELSE IF ~main_question_correct /\ time_category = "quick" THEN 22
            ELSE IF ~main_question_correct /\ time_category = "moderate" THEN 23
            ELSE 24
    IN  base_impact * modifier

(***************************************************************************)
(* MeterCalculator.calculate_meter_update: the updates dict and the new    *)
(* trigger history                                                         *)
(***************************************************************************)
\* step 2: the base impact of the response
BaseImpact(cal, r) ==
    calculate_base_impact(r.trigger_type, r.trigger_value,
                          categorize_response_time(cal, r.time_taken),
                          r.main_question_correct, r.selected_option)

\* response.selected_option == 0 if response.selected_option is not None else False
previous_negative(r) ==
    IF r.selected_option # None THEN r.selected_option = 0 ELSE FALSE

\* steps 3 and 4 on the base impact, for a given choice of the repeat path
ModifiedImpact(cal, history, r, negative) ==
    LET repeated == apply_repeat_modifier(history, r.trigger_text, BaseImpact(cal, r),
                                          negative)
    IN  apply_performance_context_modifier(cal, repeated, r.main_question_time,
                                           r.main_question_correct)

FinalImpact(cal, history, r) ==
    ModifiedImpact(cal, history, r, previous_negative(r))

UpdateUnknownToFear(cal, history, r) ==
    LET final == FinalImpact(cal, history, r)
    IN  [ fear        |-> IF r.category \notin {"thoughts", "frustration"} THEN final ELSE 0,
          thoughts    |-> IF r.category = "thoughts" THEN final ELSE 0,
          frustration |-> IF r.category = "frustration" THEN final ELSE 0,
          response_time_category |-> categorize_response_time(cal, r.time_taken),
          base_impact_before_modifiers |-> r.trigger_value,
          final_impact |-> final ]

calculate_meter_update(cal, history, r) ==
    LET final == FinalImpact(cal, history, r)
    IN  [ fear        |-> IF r.category = "fear" THEN final ELSE 0,
          thoughts    |-> IF r.category = "thoughts" THEN final ELSE 0,
          frustration |-> IF r.category = "frustration" THEN final ELSE 0,
          response_time_category |-> categorize_response_time(cal, r.time_taken),
          base_impact_before_modifiers |-> r.trigger_value,
          final_impact |-> final ]

TrackTrigger(history, r) ==
    [ t \in DOMAIN history \cup {r.trigger_text} |->
        IF t = r.trigger_text THEN r.repeat_count + 1 ELSE history[t] ]

(***************************************************************************)
(* MeterCalculator.apply_updates_to_meters                                 *)
(***************************************************************************)
DecayGrow(meter) == (meter * (2 * MAX_METER - DECAY_FACTOR)) \div MAX_METER

\* meter * DECAY_FACTOR, truncated to thousandths
Decay(meter) == (meter * DECAY_FACTOR) \div MAX_METER

\* an impact, rounded to the nearest thousandth
ToMeter(impact) ==
    LET per_thousandth == ImpactOne \div MAX_METER
    IN  (impact + per_thousandth \div 2) \div per_thousandth

ClampNoMax(x) == Max(MIN_METER, x)

\* min(MAX_METER, max(MIN_METER, x))
Clamp(x) == Min(MAX_METER, Max(MIN_METER, x))

apply_updates_to_meters(state, upd) ==
    [ fear_meter        |-> Clamp(Decay(state.fear_meter) + ToMeter(upd.fear)),
      thought_meter     |-> Clamp(Decay(state.thought_meter) + ToMeter(upd.thoughts)),
      frustration_meter |-> Clamp(Decay(state.frustration_meter) + ToMeter(upd.frustration)) ]

(***************************************************************************)
(* MeterCalculator.process_trigger_response                                *)
(***************************************************************************)
process_trigger_response(r) ==
    /\ updates' = calculate_meter_update(calibration, trigger_history, r)
    /\ trigger_history' = TrackTrigger(trigger_history, r)
    /\ meter_state' = apply_updates_to_meters(meter_state, updates')
    /\ response' = r
    /\ UNCHANGED calibration

(***************************************************************************)
(* DifficultyAdjuster (multipliers in hundredths)                          *)
(***************************************************************************)
WINDOW_SIZE == 4

KeepOldest(window, correct, time_taken) ==
    LET appended == Append(window, [correct |-> correct, time |-> time_taken])
    IN  IF Len(appended) > WINDOW_SIZE THEN SubSeq(appended, 1, WINDOW_SIZE) ELSE appended

add_performance(window, correct, time_taken) ==
    LET appended == Append(window, [correct |-> correct, time |-> time_taken])
    IN  IF Len(appended) > WINDOW_SIZE THEN Tail(appended) ELSE appended

correct_count(window) ==
    Cardinality({ i \in 1..Len(window) : window[i].correct })

RECURSIVE SumTimes(_, _)
SumTimes(window, n) ==
    IF n = 0 THEN 0 ELSE SumTimes(window, n - 1) + window[n].time

\* avg_time < 3.5  <=>  sum < 3.5 * len
should_increase_difficulty(window) ==
    IF Len(window) < 3 THEN FALSE
    ELSE /\ correct_count(window) >= 3
         /\ SumTimes(window, Len(window)) < 350 * Len(window)

DecreaseUpToThreeCorrect(window) ==
    IF Len(window) < 2 THEN FALSE
    ELSE \/ correct_count(window) <= 3
         \/ SumTimes(window, Len(window)) > 500 * Len(window)

\* avg_time > 5.0  <=>  sum > 5.0 * len
should_decrease_difficulty(window) ==
    IF Len(window) < 2 THEN FALSE
    ELSE \/ correct_count(window) <= 1
         \/ SumTimes(window, Len(window)) > 500 * Len(window)

AdjustmentFlatDecrease(window) ==
    IF should_increase_difficulty(window)
    THEN (IF correct_count(window) = 4 THEN 115 ELSE 110)
    ELSE IF should_decrease_difficulty(window)
    THEN 90
    ELSE 100

AdjustmentThreeSamples(window) ==
    IF should_increase_difficulty(window)
    THEN (IF correct_count(window) = 4 THEN 115 ELSE 110)
    ELSE IF should_decrease_difficulty(window) /\ Len(window) >= 3
    THEN (IF correct_count(window) = 0 THEN 80 ELSE 90)
    ELSE 100

get_difficulty_adjustment(window) ==
    IF should_increase_difficulty(window)
    THEN (IF correct_count(window) = 4 THEN 115 ELSE 110)
    ELSE IF should_decrease_difficulty(window)
    THEN (IF correct_count(window) = 0 THEN 80 ELSE 90)
    ELSE 100

(***************************************************************************)
(* PersonalityAssessor.  The question file is external data; the model     *)
(* uses a question bank of three two-option questions.  An option's        *)
(* scores map dimension names to raw scores in hundredths.                 *)
(***************************************************************************)
\* data['personality_dimensions'].keys(): the eight dimensions that
\* _generate_summary and _generate_recommendations read from the vector
personality_dimensions ==
    << "stress_sensitivity", "analytical_thinking", "social_preference",
       "intrinsic_motivation", "resilience", "self_confidence",
       "planning_tendency", "openness_to_feedback" >>

Dimensions == { personality_dimensions[i] : i \in 1..Len(personality_dimensions) }

QuestionBank ==
    << [ id |-> 1,
         options |-> << [ scores |-> [ stress_sensitivity |-> 80, analytical_thinking |-> 80,
                                       social_preference |-> 80, intrinsic_motivation |-> 80,
                                       resilience |-> 80 ] ],
                        [ scores |-> [ stress_sensitivity |-> 20 ] ] >> ],
       [ id |-> 2,
         options |-> << [ scores |-> [ stress_sensitivity |-> 80, self_confidence |-> 80,
                                       planning_tendency |-> 80, openness_to_feedback |-> 80 ] ],
                        [ scores |-> [ stress_sensitivity |-> 30, self_confidence |-> 100,
                                       planning_tendency |-> 0 ] ] >> ],
       [ id |-> 3,
         options |-> << [ scores |-> [ resilience |-> 80, mood |-> 90 ] ],
                        [ scores |-> [ resilience |-> 10 ] ] >> ] >>

\* random.shuffle(all_questions); all_questions[:total_questions]
total_questions == Min(Max(1, QuestionLimit), Len(QuestionBank))

ShuffledQuizzes ==
    { q \in [1..total_questions -> 1..Len(QuestionBank)] :
        \A i, j \in 1..total_questions : i # j => q[i] # q[j] }

Question(qs, i) == QuestionBank[qs[i]]

\* dims of one question: every dimension some option scores, filtered
QuestionDims(question) ==
    { d \in Dimensions :
        \E o \in 1..Len(question.options) : d \in DOMAIN question.options[o].scores }

WEIGHT_ONE == 840

WeightsNotSplit(qs) ==
    LET mapped == { i \in 1..Len(qs) :
                      Question(qs, i).id # 0 /\ QuestionDims(Question(qs, i)) # {} }
    IN  [ q_id \in { Question(qs, i).id : i \in mapped } |->
            LET question == CHOOSE q \in { Question(qs, i) : i \in mapped } : q.id = q_id
            IN  [ d \in QuestionDims(question) |-> WEIGHT_ONE ] ]

\* q_id -> {dimension: weight}; questions without id or dims are left out
_build_question_dimension_weights(qs) ==
    LET mapped == { i \in 1..Len(qs) :
                      Question(qs, i).id # 0 /\ QuestionDims(Question(qs, i)) # {} }
    IN  [ q_id \in { Question(qs, i).id : i \in mapped } |->
            LET question == CHOOSE q \in { Question(qs, i) : i \in mapped } : q.id = q_id
            IN  [ d \in QuestionDims(question) |->
                    WEIGHT_ONE \div Cardinality(QuestionDims(question)) ] ]

_compute_expected_counts(mapping) ==
    [ d \in Dimensions |-> Cardinality({ q_id \in DOMAIN mapping : d \in DOMAIN mapping[q_id] }) ]

\* next((q for q in self.questions if q['id'] == q_id), None): index or 0
FindQuestion(qs, q_id) ==
    LET hits == { i \in 1..Len(qs) : Question(qs, i).id = q_id }
    IN  IF hits = {} THEN 0 ELSE CHOOSE i \in hits : \A j \in hits : i <= j

DEFAULT_RAW_SCORE == 50
NO_COVERAGE_SCORE == 50

\* the answer is skipped by the loop of analyze_responses
Skipped(qs, resp) ==
    \/ FindQuestion(qs, resp.question_id) = 0
    \/ resp.option_index = None
    \/ resp.option_index < 0
    \/ resp.option_index >= Len(Question(qs, FindQuestion(qs, resp.question_id)).options)

\* what one response adds to dimension d: [weighted_sum, total_weight]
Contribution(qs, resp, d) ==
    LET mapping == _build_question_dimension_weights(qs)
    IN  IF Skipped(qs, resp) THEN [ weighted_sum |-> 0, total_weight |-> 0 ]
        ELSE IF resp.question_id \notin DOMAIN mapping
        THEN [ weighted_sum |-> 0, total_weight |-> 0 ]
        ELSE IF d \notin DOMAIN mapping[resp.question_id]
        THEN [ weighted_sum |-> 0, total_weight |-> 0 ]
        ELSE LET question == Question(qs, FindQuestion(qs, resp.question_id))
                 scores == question.options[resp.option_index + 1].scores
                 raw_score == IF d \in DOMAIN scores THEN scores[d] ELSE DEFAULT_RAW_SCORE
                 weight == mapping[resp.question_id][d]
             IN  [ weighted_sum |-> raw_score * weight, total_weight |-> weight ]

RECURSIVE dimension_scores(_, _, _, _)
\* dimension_scores[d] after the first n responses
dimension_scores(qs, rs, n, d) ==
    IF n = 0 THEN [ weighted_sum |-> 0, total_weight |-> 0 ]
    ELSE LET before == dimension_scores(qs, rs, n - 1, d)
             c == Contribution(qs, rs[n], d)
         IN  [ weighted_sum |-> before.weighted_sum + c.weighted_sum,
               total_weight |-> before.total_weight + c.total_weight ]

\* round(x, 2) of the quotient num/den, in hundredths
Round2(num, den) == (2 * num + den) \div (2 * den)

personality_vector(qs, rs) ==
    [ d \in Dimensions |->
        LET totals == dimension_scores(qs, rs, Len(rs), d)
        IN  IF totals.total_weight > 0
            THEN Round2(totals.weighted_sum, totals.total_weight)
            ELSE NO_COVERAGE_SCORE ]

\* _verify_weights: coverage counts every response whose question_id is mapped
Coverage(qs, rs) ==
    LET mapping == _build_question_dimension_weights(qs)
    IN  [ d \in Dimensions |->
            Cardinality({ i \in 1..Len(rs) :
                /\ rs[i].question_id \in DOMAIN mapping
                /\ d \in DOMAIN mapping[rs[i].question_id] }) ]

_verify_weights(qs, rs) ==
    LET coverage == Coverage(qs, rs)
        expected == _compute_expected_counts(_build_question_dimension_weights(qs))
    IN  [ coverage |-> coverage,
          expected |-> expected,
          all_dimensions_covered |->
              \A d \in Dimensions : coverage[d] > 0 \/ expected[d] = 0,
          total_questions_processed |-> Len(rs) ]

NoResult ==
    [ raised |-> "not_called", personality_vector |-> << >>,
      weight_check |-> << >>, valid |-> FALSE ]

AnalyzeAtLeastCount(qs, rs) ==
    IF Len(rs) < Len(qs)
    THEN [ raised |-> "ValueError", personality_vector |-> << >>,
           weight_check |-> << >>, valid |-> FALSE ]
    ELSE [ raised |-> "none",
           personality_vector |-> personality_vector(qs, rs),
           weight_check |-> _verify_weights(qs, rs),
           valid |-> _verify_weights(qs, rs).all_dimensions_covered ]

analyze_responses(qs, rs) ==
    IF Len(rs) # Len(qs)
    THEN [ raised |-> "ValueError", personality_vector |-> << >>,
           weight_check |-> << >>, valid |-> FALSE ]
    ELSE [ raised |-> "none",
           personality_vector |-> personality_vector(qs, rs),
           weight_check |-> _verify_weights(qs, rs),
           valid |-> _verify_weights(qs, rs).all_dimensions_covered ]

(***************************************************************************)
(* PersonalityMapper (personality values in hundredths)                    *)
(***************************************************************************)
\* the keys of TRAIT_TO_TAG_MAPPING in table order; a personality vector is
\* a dict whose keys the model iterates in this order
MapperDimensions ==
    << "stress_sensitivity",
       "analytical_thinking",
       "social_preference",
       "intrinsic_motivation",
       "resilience",
       "self_confidence",
       "planning_tendency",
       "openness_to_feedback",
       "impulsivity",
       "time_awareness",
       "distraction_resistance" >>

TRAIT_TO_TAG_MAPPING ==
    [ stress_sensitivity |->
          [ low    |-> << "calm_under_pressure", "composed", "resilient" >>,
            medium |-> << "manageable_stress", "adaptive", "balanced" >>,
            high   |-> << "anxious_response", "needs_calm", "needs_support" >> ],
      analytical_thinking |->
          [ low    |-> << "intuitive_learner", "big_picture", "creative" >>,
            medium |-> << "balanced_analysis", "methodical", "structured" >>,
            high   |-> << "detail_oriented", "systematic", "logical" >> ],
      social_preference |->
          [ low    |-> << "independent", "solo_work", "introverted" >>,
            medium |-> << "selective_social", "flexible", "balanced_social" >>,
            high   |-> << "collaborative", "group_oriented", "extroverted" >> ],
      intrinsic_motivation |->
          [ low    |-> << "extrinsic_driven", "grade_focused", "reward_motivated" >>,
            medium |-> << "balanced_motivation", "mixed_drivers", "flexible" >>,
            high   |-> << "intrinsic_driven", "mastery_focused", "learning_oriented" >> ],
      resilience |->
          [ low    |-> << "fragile_to_setbacks", "needs_encouragement", "recovery_support" >>,
            medium |-> << "moderate_resilience", "recovers_with_help", "adaptable" >>,
            high   |-> << "bounces_back", "self_recovering", "strong_resilience" >> ],
      self_confidence |->
          [ low    |-> << "low_confidence", "self_doubt", "confidence_building" >>,
            medium |-> << "moderate_confidence", "situational_confidence", "developing" >>,
            high   |-> << "high_confidence", "capable", "self_assured" >> ],
      planning_tendency |->
          [ low    |-> << "spontaneous", "flexible", "improviser" >>,
            medium |-> << "balanced_planning", "adaptive_planning", "flexible_structure" >>,
            high   |-> << "organized", "structured", "planner" >> ],
      openness_to_feedback |->
          [ low    |-> << "defensive", "resistant", "fixed_mindset" >>,
            medium |-> << "receptive_with_caution", "growth_oriented", "learner" >>,
            high   |-> << "open_to_feedback", "growth_mindset", "seeker_of_input" >> ],
      impulsivity |->
          [ low    |-> << "deliberate", "thoughtful", "careful" >>,
            medium |-> << "balanced_pace", "measured", "considered" >>,
            high   |-> << "impulsive", "rushing", "needs_slowdown" >> ],
      time_awareness |->
          [ low    |-> << "poor_time_sense", "panic_at_end", "needs_timing" >>,
            medium |-> << "adequate_time_sense", "manageable_awareness", "improving" >>,
            high   |-> << "excellent_timer", "time_aware", "strategic_pacing" >> ],
      distraction_resistance |->
          [ low    |-> << "easily_distracted", "needs_focus_support", "focus_help" >>,
            medium |-> << "moderate_focus", "situational_focus", "variable_focus" >>,
            high   |-> << "excellent_focus", "deep_focus", "flow_capable" >> ] ]

\* CATEGORY_TAG_ENRICHMENT; a key a category does not have is the empty set,
\* as enrichment.get(key, []) gives
CATEGORY_TAG_ENRICHMENT ==
    [ thoughts |->
          [ base_tags |-> { "analytical", "logical", "conceptual" },
            stress_sensitive_add |-> { "needs_simplification", "step_by_step" },
            confident_add |-> { "challenge_worthy", "advanced" },
            analytical_add |-> { "deep_dive", "explanation" },
            intuitive_add |-> { "pattern_recognition", "big_picture" },
            low_resilience_add |-> {},
            high_resilience_add |-> {},
            low_confidence_add |-> {},
            resilient_add |-> {},
            intrinsic_motivation_add |-> {} ],
      frustration |->
          [ base_tags |-> { "persistence", "resilience", "encouragement" },
            stress_sensitive_add |-> { "calm", "reassuring", "manageable" },
            confident_add |-> { "capability_reminder", "strength_focus" },
            analytical_add |-> {},
            intuitive_add |-> {},
            low_resilience_add |-> { "compassionate", "supportive", "confidence_building" },
            high_resilience_add |-> { "motivating", "challenge_reframing" },
            low_confidence_add |-> {},
            resilient_add |-> {},
            intrinsic_motivation_add |-> {} ],
      fear |->
          [ base_tags |-> { "reassurance", "confidence_building", "support" },
            stress_sensitive_add |-> { "calming", "grounding", "breathing" },
            confident_add |-> {},
            analytical_add |-> {},
            intuitive_add |-> {},
            low_resilience_add |-> {},
            high_resilience_add |-> {},
            low_confidence_add |-> { "capable_reminder", "success_story" },
            resilient_add |-> { "challenge_reframe", "strength_building" },
            intrinsic_motivation_add |-> { "purpose_reminder", "learning_value" } ] ]

\* {} (and None where the code tests a vector for truth)
EmptyVector == [ d \in {} |-> 0 ]

SeqToSet(s) == { s[i] : i \in 1..Len(s) }

Abs(x) == IF x < 0 THEN 0 - x ELSE x

MappedDimensions == SeqToSet(MapperDimensions)

\* personality_vector.get(dimension, 0.5)
VectorGet(vector, dimension) ==
    IF dimension \in DOMAIN vector THEN vector[dimension] ELSE 50

Tier(value) ==
    IF value < 33 THEN "low" ELSE IF value < 67 THEN "medium" ELSE "high"

\* the tags of the tier of every mapped dimension of the vector
TierTags(vector, dims) ==
    UNION { SeqToSet(TRAIT_TO_TAG_MAPPING[d][Tier(vector[d])]) : d \in dims }

\* the set of the tags of the returned list
get_tags_from_personality(vector, category) ==
    LET trait_tags == TierTags(vector, DOMAIN vector \cap MappedDimensions)
        enrichment == CATEGORY_TAG_ENRICHMENT[category]
        stress_value == VectorGet(vector, "stress_sensitivity")
        confidence_value == VectorGet(vector, "self_confidence")
        resilience_value == VectorGet(vector, "resilience")
        analytical_value == VectorGet(vector, "analytical_thinking")
        motivation_value == VectorGet(vector, "intrinsic_motivation")
    IN  IF category \notin DOMAIN CATEGORY_TAG_ENRICHMENT THEN trait_tags
        ELSE trait_tags
               \cup enrichment.base_tags
               \cup (IF stress_value > 70 THEN enrichment.stress_sensitive_add ELSE {})
               \cup (IF confidence_value > 70 THEN enrichment.confident_add ELSE {})
               \cup (IF resilience_value < 30 THEN enrichment.low_resilience_add ELSE {})
               \cup (IF analytical_value > 70 THEN enrichment.analytical_add ELSE {})
               \cup (IF analytical_value < 33 THEN enrichment.intuitive_add ELSE {})
               \cup (IF category = "fear" /\ confidence_value < 30
                     THEN enrichment.low_confidence_add ELSE {})
               \cup (IF category = "fear" /\ resilience_value > 70
                     THEN enrichment.resilient_add ELSE {})
               \cup (IF category = "fear" /\ motivation_value > 70
                     THEN enrichment.intrinsic_motivation_add ELSE {})

\* index of a dimension in the iteration order of the vector
KeyPosition(dimension) ==
    CHOOSE i \in 1..Len(MapperDimensions) : MapperDimensions[i] = dimension

\* sorted(scores.items(), key = |value - 0.5|, reverse = True)[:top_n]; the
\* sort is stable, so equal scores keep the iteration order
top_dimensions(vector, top_n) ==
    LET score(d) == Abs(vector[d] - 50)
        before(e, d) ==
            \/ score(e) > score(d)
            \/ score(e) = score(d) /\ KeyPosition(e) < KeyPosition(d)
    IN  { d \in DOMAIN vector :
            Cardinality({ e \in DOMAIN vector : before(e, d) }) < top_n }

\* the set of the tags of the returned list
get_dominant_traits_tags(vector, top_n) ==
    IF vector = EmptyVector THEN {}
    ELSE TierTags(vector, top_dimensions(vector, top_n) \cap MappedDimensions)

(***************************************************************************)
(* TraitWeighting (times in minutes).  A weight is held in units of        *)
(* 1/WEIGHT_UNIT: relevance in hundredths, times the recency factor        *)
(* 1/(1 + 0.5 n) = 2/(2 + n) in 1/840, times the novelty factor in fifths. *)
(* A normalized weight is held in thousandths, truncated.                  *)
(***************************************************************************)
MIN_TAG_REPEAT_MINUTES == 15
WEIGHT_UNIT == 100 * 840 * 5
WEIGHT_FLOOR == WEIGHT_UNIT \div 10

TraitWeighting ==
    [ tag_history |-> [ tag \in {} |-> << >> ],
      category_history |-> [ category \in {} |-> << >> ],
      selected_popups |-> << >> ]

\* self.tag_history.get(tag, [])
TagUses(weighting, tag) ==
    IF tag \in DOMAIN weighting.tag_history THEN weighting.tag_history[tag] ELSE << >>

\* reverse_map[tag]: the first (dimension, tier) of the table that lists the tag
ReverseMap(tag) ==
    LET lists(i, tier) == tag \in SeqToSet(TRAIT_TO_TAG_MAPPING[MapperDimensions[i]][tier])
        hits == { i \in 1..Len(MapperDimensions) :
                    lists(i, "low") \/ lists(i, "medium") \/ lists(i, "high") }
        first == CHOOSE i \in hits : \A j \in hits : i <= j
    IN  IF hits = {} THEN [ dimension |-> "", tier |-> "" ]
        ELSE [ dimension |-> MapperDimensions[first],
               tier |-> IF lists(first, "low") THEN "low"
                        ELSE IF lists(first, "medium") THEN "medium" ELSE "high" ]

\* relevance, in hundredths
_get_personality_weight(tag, vector) ==
    LET mapped == ReverseMap(tag)
        value == VectorGet(vector, mapped.dimension)
        target == IF mapped.tier = "low" THEN 25
                  ELSE IF mapped.tier = "high" THEN 75 ELSE 50
    IN  IF mapped.dimension = "" THEN 100
        ELSE Max(30, 100 - 2 * Abs(value - target))

recent_uses(weighting, tag, now) ==
    LET uses == TagUses(weighting, tag)
    IN  Cardinality({ i \in 1..Len(uses) : now - uses[i] < MIN_TAG_REPEAT_MINUTES })

WeightPenaltyGrows(weighting, tag, vector, now) ==
    LET recent == recent_uses(weighting, tag, now)
        recency == (840 * (2 + recent)) \div 2
        novelty == IF Len(TagUses(weighting, tag)) < 2 THEN 6 ELSE 5
    IN  Max(WEIGHT_FLOOR, _get_personality_weight(tag, vector) * recency * novelty)

\* weights[tag] before normalization
tag_weight(weighting, tag, vector, now) ==
    LET recent == recent_uses(weighting, tag, now)
        recency == (2 * 840) \div (2 + recent)
        novelty == IF Len(TagUses(weighting, tag)) < 2 THEN 6 ELSE 5
    IN  Max(WEIGHT_FLOOR, _get_personality_weight(tag, vector) * recency * novelty)

RECURSIVE SumWeights(_, _, _, _)
SumWeights(weighting, tags, vector, now) ==
    IF tags = {} THEN 0
    ELSE LET tag == CHOOSE x \in tags : TRUE
         IN  tag_weight(weighting, tag, vector, now)
               + SumWeights(weighting, tags \ {tag}, vector, now)

calculate_tag_weights(weighting, candidate_tags, vector, now) ==
    LET total == SumWeights(weighting, candidate_tags, vector, now)
    IN  [ tag \in candidate_tags |->
            (tag_weight(weighting, tag, vector, now) * 1000) \div total ]

\* tag_history[selected].append(now); selected_popups.append(...)
RecordPick(weighting, tag, now) ==
    [ weighting EXCEPT
        !.tag_history =
            [ t \in DOMAIN @ \cup {tag} |->
                IF t = tag THEN Append(TagUses(weighting, tag), now) ELSE @[t] ],
        !.selected_popups = Append(@, [ tag |-> tag, timestamp |-> now ]) ]

\* the possible results of random.choices(tags, weights): every tag of
\* positive weight, each with the history it leaves behind
select_weighted_tag(weighting, candidate_tags, vector, now) ==
    { [ tag |-> tag, weighting |-> RecordPick(weighting, tag, now) ] :
        tag \in { t \in candidate_tags : tag_weight(weighting, t, vector, now) > 0 } }

PickedTags(weighting, from) ==
    { weighting.selected_popups[i].tag : i \in from..Len(weighting.selected_popups) }

\* get_variety_score() < 0.4
LowVariety(weighting) ==
    LET total == Len(weighting.selected_popups)
    IN  IF total < 2 THEN FALSE
        ELSE 10 * Cardinality(PickedTags(weighting, 1)) < 4 * total

RatioOnly(weighting) == LowVariety(weighting)

should_force_variety(weighting) ==
    LET total == Len(weighting.selected_popups)
    IN  IF total >= 5 /\ Cardinality(PickedTags(weighting, total - 4)) <= 2
        THEN TRUE
        ELSE LowVariety(weighting)

record_category_use(weighting, category, now) ==
    [ weighting EXCEPT
        !.category_history =
            [ c \in DOMAIN @ \cup {category} |->
                IF c = category
                THEN Append(IF c \in DOMAIN @ THEN @[c] ELSE << >>, now)
                ELSE @[c] ] ]

\* a popup pool is a list of popups; a popup is a record with id, text,
\* type and tags
PoolTags(popup_pool) ==
    UNION { popup_pool[i].tags : i \in 1..Len(popup_pool) }

LastCarrier(popup_pool, tag) ==
    LET carriers == { i \in 1..Len(popup_pool) : tag \in popup_pool[i].tags }
    IN  popup_pool[CHOOSE i \in carriers : \A j \in carriers : i >= j]

\* tag_to_popup[tag]: the first popup of the pool that carries the tag
tag_to_popup(popup_pool, tag) ==
    LET carriers == { i \in 1..Len(popup_pool) : tag \in popup_pool[i].tags }
    IN  popup_pool[CHOOSE i \in carriers : \A j \in carriers : i <= j]

\* the possible values of chosen_tag, each with the weighting state after
\* the choice: random.choice(rare_tags) records nothing
chosen_tag(all_tags, vector, weighting, now) ==
    LET rare_tags == { tag \in all_tags : Len(TagUses(weighting, tag)) < 2 }
    IN  IF should_force_variety(weighting) /\ rare_tags # {}
        THEN { [ tag |-> tag, weighting |-> weighting ] : tag \in rare_tags }
        ELSE select_weighted_tag(weighting, all_tags, vector, now)

\* the possible results: the popup returned and the weighting state after it
select_popup_with_weighting(popup_pool, vector, weighting, now) ==
    LET all_tags == PoolTags(popup_pool)
        any_popup == { [ popup |-> popup_pool[i], weighting |-> weighting ] :
                         i \in 1..Len(popup_pool) }
    IN  IF all_tags = {} THEN any_popup
        ELSE { [ popup |-> tag_to_popup(popup_pool, pick.tag),
                 weighting |-> pick.weighting ] :
                 pick \in chosen_tag(all_tags, vector, weighting, now) }

(***************************************************************************)
(* PopupSelector.  A popup is a record [id, text, type, tags]; the id ""   *)
(* stands for an id that Python takes for false (0, None, ''), and the     *)
(* type "" for required_type None.  A level gives the set of its possible  *)
(* results, each a popup with the weighting state it leaves; the empty     *)
(* set stands for None.                                                    *)
(***************************************************************************)
duplicate_buffer_minutes == 30

PopupSelector ==
    [ last_selected |-> [ id \in {} |-> 0 ],
      trait_weighting |-> TraitWeighting ]

NoPopup == [ id |-> "", text |-> "", type |-> "none", tags |-> {} ]

\* popup.get('id') or popup.get('text')
popup_id(popup) == IF popup.id # "" THEN popup.id ELSE popup.text

FilterNothing(selector, popups, now) == popups

_filter_recent(selector, popups, now) ==
    LET fresh(popup) ==
            \/ popup_id(popup) \notin DOMAIN selector.last_selected
            \/ now - selector.last_selected[popup_id(popup)] > duplicate_buffer_minutes
    IN  SelectSeq(popups, fresh)

Unchanged(popup_pool, weighting) ==
    { [ popup |-> popup_pool[i], weighting |-> weighting ] : i \in 1..Len(popup_pool) }

SafeDefaultFirst(popup_pool, vector, category, weighting, now) ==
    LET safe(popup) == popup.tags \cap { "supportive", "confidence_building" } # {}
    IN  Unchanged(SelectSeq(popup_pool, safe), weighting)

_level1_personality_match(popup_pool, vector, category, weighting, now) ==
    LET tags == get_tags_from_personality(vector, category)
        overlaps(popup) == popup.tags \cap tags # {}
        matching == SelectSeq(popup_pool, overlaps)
    IN  IF tags = {} \/ matching = << >> THEN {}
        ELSE IF Len(matching) = 1 THEN Unchanged(matching, weighting)
        ELSE select_popup_with_weighting(matching, vector, weighting, now)

_level2_fuzzy_match(popup_pool, vector, weighting, now) ==
    LET dominant_tags == get_dominant_traits_tags(vector, 5)
        matches(popup) == Cardinality(popup.tags \cap dominant_tags)
        scored(popup) == matches(popup) > 0
        top(popup) ==
            /\ scored(popup)
            /\ \A i \in 1..Len(popup_pool) : matches(popup_pool[i]) <= matches(popup)
        top_matches == SelectSeq(popup_pool, top)
    IN  IF dominant_tags = {} \/ top_matches = << >> THEN {}
        ELSE IF Len(top_matches) = 1 THEN Unchanged(top_matches, weighting)
        ELSE select_popup_with_weighting(top_matches, vector, weighting, now)

\* random.choice(matches) if matches else None
_level3_category_match(popup_pool, category, weighting) ==
    LET base_tags == IF category \in DOMAIN CATEGORY_TAG_ENRICHMENT
                     THEN CATEGORY_TAG_ENRICHMENT[category].base_tags ELSE {}
        carries(popup) == popup.tags \cap base_tags # {}
    IN  Unchanged(SelectSeq(popup_pool, carries), weighting)

safe_tags ==
    { "needs_encouragement", "supportive", "compassionate", "confidence_building" }

_level4_safe_default(popup_pool, weighting) ==
    LET carries(popup) == popup.tags \cap safe_tags # {}
    IN  Unchanged(SelectSeq(popup_pool, carries), weighting)

_record_selection(selector, popup, category, now) ==
    [ selector EXCEPT
        !.last_selected =
            [ id \in DOMAIN @ \cup {popup_id(popup)} |->
                IF id = popup_id(popup) THEN now ELSE @[id] ],
        !.trait_weighting = record_category_use(@, category, now) ]

\* the possible results of select_popup: the popup returned (NoPopup for
\* None) and the selector state after the call
select_popup(selector, vector, category, popups_by_category, required_type, now) ==
    LET of_category == IF category \in DOMAIN popups_by_category
                       THEN popups_by_category[category] ELSE << >>
        typed(popup) == popup.type = required_type
        category_popups == IF required_type # "" THEN SelectSeq(of_category, typed)
                           ELSE of_category
        recent == _filter_recent(selector, category_popups, now)
        available == IF recent = << >> THEN category_popups ELSE recent
        weighting == selector.trait_weighting
        level1 == _level1_personality_match(available, vector, category, weighting, now)
        level2 == _level2_fuzzy_match(available, vector, weighting, now)
        level3 == _level3_category_match(available, category, weighting)
        level4 == _level4_safe_default(available, weighting)
        selections == IF level1 # {} THEN level1
                      ELSE IF level2 # {} THEN level2
                      ELSE IF level3 # {} THEN level3
                      ELSE IF level4 # {} THEN level4
                      ELSE Unchanged(available, weighting)
    IN  IF category_popups = << >>
        THEN { [ popup |-> NoPopup, selector |-> selector ] }
        ELSE { [ popup |-> s.popup,
                 selector |-> _record_selection(
                                  [ selector EXCEPT !.trait_weighting = s.weighting ],
                                  s.popup, category, now) ] : s \in selections }

(***************************************************************************)
(* PersonalityAssessor._generate_recommendations (vector in hundredths):   *)
(* the two numeric recommendations that integrate_with_session copies to   *)
(* the session                                                             *)
(***************************************************************************)
\* recommendations['question_difficulty']['value'], in hundredths
question_difficulty(vector) ==
    LET stress == vector["stress_sensitivity"]
        analytical == vector["analytical_thinking"]
        resilience == vector["resilience"]
        confidence == vector["self_confidence"]
        planning == vector["planning_tendency"]
    IN  IF stress >= 70 \/ resilience <= 35 THEN 30
        ELSE IF stress >= 55 THEN 40
        ELSE IF stress <= 35 /\ confidence >= 55 THEN 70
        ELSE IF confidence >= 80 /\ analytical >= 70 THEN 85
        ELSE IF planning <= 30 THEN 50
        ELSE 55

\* recommendations['trigger_frequency']['value']
trigger_frequency(vector) ==
    LET stress == vector["stress_sensitivity"]
        analytical == vector["analytical_thinking"]
        social == vector["social_preference"]
        resilience == vector["resilience"]
        confidence == vector["self_confidence"]
        planning == vector["planning_tendency"]
    IN  IF stress >= 75 THEN 4
        ELSE IF resilience <= 35 THEN 5
        ELSE IF planning < 30 THEN 3
        ELSE IF confidence > 80 /\ analytical > 80 THEN 10
        ELSE IF social > 75 THEN 4
        ELSE 6

(***************************************************************************)
(* SessionManager (times in minutes, None when never set; a vector is a    *)
(* function from dimension names to hundredths)                            *)
(***************************************************************************)
SessionManager(student_id) ==
    [ student_id |-> student_id,
      initial_assessment |-> EmptyVector,
      current_personality_vector |-> EmptyVector,
      current_traits |-> {},
      trait_last_updated |-> None,
      performance_history |-> << >>,
      popup_count_since_update |-> 0 ]

StaleTraits(mgr, now) ==
    [ mgr EXCEPT !.trait_last_updated = now, !.popup_count_since_update = 0 ]

\* current_traits holds the set of the tags of the list
_refresh_traits_from_vector(mgr, now) ==
    [ mgr EXCEPT
        !.current_traits = get_dominant_traits_tags(mgr.current_personality_vector, 5),
        !.trait_last_updated = now,
        !.popup_count_since_update = 0 ]

load_initial_personality(mgr, vector, now) ==
    _refresh_traits_from_vector(
        [ mgr EXCEPT !.initial_assessment = vector,
                     !.current_personality_vector = vector ], now)

\* max(0.0, min(1.0, vector.get(key, 0.5) + delta)) stored under key
Nudged(vector, key, delta) ==
    [ k \in DOMAIN vector \cup {key} |->
        IF k = key THEN Max(0, Min(100, VectorGet(vector, key) + delta))
        ELSE vector[k] ]

WholeHistory(history) == history

\* self.performance_history[-10:]
Recent(history) ==
    SubSeq(history, Max(1, Len(history) - 9), Len(history))

AdjustUnclamped(mgr) ==
    LET recent == Recent(mgr.performance_history)
        wrong == { i \in 1..Len(recent) : ~recent[i].correct }
        raise(vector) ==
            [ k \in DOMAIN vector \cup {"stress_sensitivity"} |->
                IF k = "stress_sensitivity" THEN VectorGet(vector, k) + 8
                ELSE vector[k] ]
    IN  IF Len(mgr.performance_history) >= 3 /\ Cardinality(wrong) = Len(recent)
        THEN [ mgr EXCEPT !.current_personality_vector = raise(@) ]
        ELSE mgr

_adjust_personality_from_performance(mgr) ==
    LET recent == Recent(mgr.performance_history)
        n == Len(recent)
        correct == Cardinality({ i \in 1..n : recent[i].correct })
        RECURSIVE total(_)
        total(i) == IF i = 0 THEN 0 ELSE recent[i].response_time + total(i - 1)
        categories == { recent[i].category : i \in 1..n }
        start == mgr.current_personality_vector
        \* accuracy > 0.85, and avg_response_time < 20
        eager == IF 100 * correct > 85 * n
                 THEN LET lowered == Nudged(start, "intrinsic_motivation", 0 - 5)
                      IN  IF total(n) < 20 * n
                          THEN Nudged(lowered, "impulsivity", 8)
                          ELSE lowered
                 ELSE start
        \* accuracy < 0.5, and accuracy < 0.3
        shaken == IF 2 * correct < n
                  THEN LET lowered == Nudged(eager, "resilience", 0 - 5)
                       IN  IF 10 * correct < 3 * n
                           THEN Nudged(lowered, "stress_sensitivity", 8)
                           ELSE lowered
                  ELSE eager
        narrowed == IF Cardinality(categories) = 1 /\ n >= 5
                    THEN Nudged(shaken, "distraction_resistance", 0 - 5)
                    ELSE shaken
        clamped == [ k \in DOMAIN narrowed |-> Max(0, Min(100, narrowed[k])) ]
    IN  IF Len(mgr.performance_history) < 3 THEN mgr
        ELSE [ mgr EXCEPT !.current_personality_vector = clamped ]

trait_update_interval_minutes == 10

RecomputeNever(mgr, popup_performance, now) ==
    [ mgr EXCEPT
        !.performance_history =
            Append(@, [ correct |-> popup_performance.correct,
                        response_time |-> popup_performance.response_time,
                        category |-> popup_performance.category,
                        timestamp |-> now ]),
        !.popup_count_since_update = @ + 1 ]

update_personality_from_performance(mgr, popup_performance, now) ==
    LET appended ==
            [ mgr EXCEPT
                !.performance_history =
                    Append(@, [ correct |-> popup_performance.correct,
                                response_time |-> popup_performance.response_time,
                                category |-> popup_performance.category,
                                timestamp |-> now ]),
                !.popup_count_since_update = @ + 1 ]
        should_update ==
            \/ appended.popup_count_since_update >= 10
            \/ /\ appended.trait_last_updated # None
               /\ now - appended.trait_last_updated > trait_update_interval_minutes
    IN  IF should_update
        THEN _refresh_traits_from_vector(
                 _adjust_personality_from_performance(appended), now)
        ELSE appended

(***************************************************************************)
(* app.py: UserSession and the personality routes.  Of the session the     *)
(* model keeps the fields below; the texts of the assessment (summary,     *)
(* question pool, trigger types) are not kept.                             *)
(***************************************************************************)
UserSession(user_id) ==
    [ user_id |-> user_id,
      meter_state |-> [ fear_meter |-> 0, thought_meter |-> 0, frustration_meter |-> 0 ],
      trigger_history |-> [ t \in {} |-> 0 ],
      performance_window |-> << >>,
      current_difficulty |-> 100,
      recommended_trigger_frequency |-> 6,
      responses |-> 0,
      personality_completed |-> FALSE,
      personality_vector |-> EmptyVector,
      personality_responses |-> << >>,
      session_manager |-> SessionManager(user_id),
      current_question_index |-> 0,
      triggered_sentences |-> << >>,
      popup_selector |-> PopupSelector,
      popup_counter |-> 0,
      trigger_source_counts |-> [ chatgpt |-> 0, dataset |-> 0 ] ]

\* integrate_with_session followed by the seeding of the session manager
integrate_with_session(session, res, responses, now) ==
    LET seeded == IF res.personality_vector # EmptyVector
                  THEN load_initial_personality(session.session_manager,
                                                res.personality_vector, now)
                  ELSE session.session_manager
    IN  [ session EXCEPT
            !.current_difficulty = question_difficulty(res.personality_vector),
            !.recommended_trigger_frequency = trigger_frequency(res.personality_vector),
            !.personality_vector =
                IF res.personality_vector # EmptyVector
                THEN seeded.current_personality_vector
                ELSE res.personality_vector,
            !.personality_completed = TRUE,
            !.personality_responses = responses,
            !.session_manager = seeded ]

Reply(route, session_id, status) ==
    [ route |-> route, session_id |-> session_id, status |-> status ]

\* the route /api/personality/submit
submit_personality_assessment(session_id, responses) ==
    IF session_id \notin DOMAIN user_sessions
    THEN /\ reply' = Reply("submit_personality_assessment", session_id, 404)
         /\ UNCHANGED << user_sessions, result >>
    ELSE IF responses = << >>
    THEN /\ reply' = Reply("submit_personality_assessment", session_id, 400)
         /\ UNCHANGED << user_sessions, result >>
    ELSE /\ result' = analyze_responses(questions, responses)
         /\ IF result'.raised = "ValueError"
            THEN /\ reply' = Reply("submit_personality_assessment", session_id, 400)
                 /\ UNCHANGED user_sessions
            ELSE /\ reply' = Reply("submit_personality_assessment", session_id, 200)
                 /\ user_sessions' =
                       [ user_sessions EXCEPT ![session_id] =
                           integrate_with_session(@, result', responses, clock) ]

(***************************************************************************)
(* Initial values                                                          *)
(***************************************************************************)
EmptyHistory == [ t \in {} |-> 0 ]

NoUpdates ==
    [ fear |-> 0, thoughts |-> 0, frustration |-> 0,
      response_time_category |-> "none",
      base_impact_before_modifiers |-> 0, final_impact |-> 0 ]

NoResponse ==
    [ trigger_text |-> "", trigger_type |-> "none", category |-> "none",
      trigger_value |-> 0, time_taken |-> 0, selected_option |-> None,
      main_question_correct |-> FALSE, main_question_time |-> 0,
      repeat_count |-> 0 ]

\* UserSession.__init__: calibration from the environment defaults,
\* MeterState(), MeterCalculator(calibration)
DefaultCalibration ==
    [ baseline_reaction_time |-> BASELINE_REACTION_TIME, processing_speed |-> "normal" ]

ZeroMeters == [ fear_meter |-> 0, thought_meter |-> 0, frustration_meter |-> 0 ]

MeterIdle ==
    /\ calibration = DefaultCalibration
    /\ meter_state = ZeroMeters
    /\ trigger_history = EmptyHistory
    /\ updates = NoUpdates
    /\ response = NoResponse
    /\ budget = 0

DifficultyIdle ==
    /\ performance_window = << >>
    /\ current_difficulty = 100

ProfilerIdle ==
    /\ questions = << >>
    /\ quiz_responses = << >>
    /\ result = NoResult

NoSessions == [ session_id \in {} |-> 0 ]

NoReply == [ route |-> "none", session_id |-> "", status |-> 0 ]

AppIdle ==
    /\ user_sessions = NoSessions
    /\ reply = NoReply
    /\ clock = 0

NoSelection ==
    [ vector |-> EmptyVector, category |-> "", required_type |-> "", popup |-> NoPopup ]

NoWeights ==
    [ candidate_tags |-> {}, vector |-> EmptyVector, weights |-> [ tag \in {} |-> 0 ] ]

SelectorIdle ==
    /\ popup_selector = PopupSelector
    /\ selection = NoSelection
    /\ selection_log = << >>
    /\ tag_weights = NoWeights

TrackerIdle == session_manager = SessionManager("u1")

NoThreads == [ thread \in {} |-> 0 ]

ThreadsIdle ==
    /\ threads = NoThreads
    /\ ended_sessions = {}

(***************************************************************************)
(* groq_generator.py: validate_generation.  A generated popup is the dict  *)
(* parsed from the model's JSON: text ("" when the key is absent or        *)
(* empty), type, options and value.  The value field records what the JSON *)
(* held: no value key, a number (in twentieths), a string or null.         *)
(* Python looks for a keyword inside the lowercased text character by      *)
(* character, so the texts and tags of the model are spelled out.          *)
(***************************************************************************)
UpperCase ==
    << "A", "B", "C", "D", "E", "F", "G", "H", "I", "J", "K", "L", "M",
       "N", "O", "P", "Q", "R", "S", "T", "U", "V", "W", "X", "Y", "Z" >>

LowerCase ==
    << "a", "b", "c", "d", "e", "f", "g", "h", "i", "j", "k", "l", "m",
       "n", "o", "p", "q", "r", "s", "t", "u", "v", "w", "x", "y", "z" >>

\* the characters of the strings that the code looks into
Spelling(s) ==
    CASE s = "Stay Calm" -> << "S", "t", "a", "y", " ", "C", "a", "l", "m" >>
      [] s = "Go on" -> << "G", "o", " ", "o", "n" >>
      [] s = "needs_calm" -> << "n", "e", "e", "d", "s", "_", "c", "a", "l", "m" >>
      [] s = "humor" -> << "h", "u", "m", "o", "r" >>
      [] s = "Anxious" -> << "A", "n", "x", "i", "o", "u", "s" >>
      [] s = "anxious" -> << "a", "n", "x", "i", "o", "u", "s" >>
      [] s = "confident" -> << "c", "o", "n", "f", "i", "d", "e", "n", "t" >>
      [] s = "organized" -> << "o", "r", "g", "a", "n", "i", "z", "e", "d" >>
      [] s = "flexible" -> << "f", "l", "e", "x", "i", "b", "l", "e" >>
      [] s = "creative" -> << "c", "r", "e", "a", "t", "i", "v", "e" >>
      [] s = "systematic" -> << "s", "y", "s", "t", "e", "m", "a", "t", "i", "c" >>
      [] s = "motivated" -> << "m", "o", "t", "i", "v", "a", "t", "e", "d" >>
      [] s = "resilient" -> << "r", "e", "s", "i", "l", "i", "e", "n", "t" >>
      [] s = "reassurance" ->
            << "r", "e", "a", "s", "s", "u", "r", "a", "n", "c", "e" >>
      [] s = "confidence_building" ->
            << "c", "o", "n", "f", "i", "d", "e", "n", "c", "e", "_", "b", "u", "i", "l", "d", "i", "n", "g" >>
      [] s = "support" ->
            << "s", "u", "p", "p", "o", "r", "t" >>
      [] s = "anxious_response" ->
            << "a", "n", "x", "i", "o", "u", "s", "_", "r", "e", "s", "p", "o", "n", "s", "e" >>
      [] s = "needs_support" ->
            << "n", "e", "e", "d", "s", "_", "s", "u", "p", "p", "o", "r", "t" >>
      [] s = "calming" ->
            << "c", "a", "l", "m", "i", "n", "g" >>
      [] s = "grounding" ->
            << "g", "r", "o", "u", "n", "d", "i", "n", "g" >>
      [] s = "breathing" ->
            << "b", "r", "e", "a", "t", "h", "i", "n", "g" >>
      [] s = "calm_under_pressure" ->
            << "c", "a", "l", "m", "_", "u", "n", "d", "e", "r", "_", "p", "r", "e", "s", "s", "u", "r", "e" >>
      [] s = "composed" ->
            << "c", "o", "m", "p", "o", "s", "e", "d" >>
      [] s = "manageable_stress" ->
            << "m", "a", "n", "a", "g", "e", "a", "b", "l", "e", "_", "s", "t", "r", "e", "s", "s" >>
      [] s = "adaptive" ->
            << "a", "d", "a", "p", "t", "i", "v", "e" >>
      [] s = "balanced" ->
            << "b", "a", "l", "a", "n", "c", "e", "d" >>
      [] s = "balanced_analysis" ->
            << "b", "a", "l", "a", "n", "c", "e", "d", "_", "a", "n", "a", "l", "y", "s", "i", "s" >>
      [] s = "methodical" ->
            << "m", "e", "t", "h", "o", "d", "i", "c", "a", "l" >>
      [] s = "structured" ->
            << "s", "t", "r", "u", "c", "t", "u", "r", "e", "d" >>
      [] s = "detail_oriented" ->
            << "d", "e", "t", "a", "i", "l", "_", "o", "r", "i", "e", "n", "t", "e", "d" >>
      [] s = "logical" ->
            << "l", "o", "g", "i", "c", "a", "l" >>
      [] s = "selective_social" ->
            << "s", "e", "l", "e", "c", "t", "i", "v", "e", "_", "s", "o", "c", "i", "a", "l" >>
      [] s = "balanced_social" ->
            << "b", "a", "l", "a", "n", "c", "e", "d", "_", "s", "o", "c", "i", "a", "l" >>
      [] s = "collaborative" ->
            << "c", "o", "l", "l", "a", "b", "o", "r", "a", "t", "i", "v", "e" >>
      [] s = "group_oriented" ->
            << "g", "r", "o", "u", "p", "_", "o", "r", "i", "e", "n", "t", "e", "d" >>
      [] s = "extroverted" ->
            << "e", "x", "t", "r", "o", "v", "e", "r", "t", "e", "d" >>
      [] s = "balanced_motivation" ->
            << "b", "a", "l", "a", "n", "c", "e", "d", "_", "m", "o", "t", "i", "v", "a", "t", "i", "o", "n" >>
      [] s = "mixed_drivers" ->
            << "m", "i", "x", "e", "d", "_", "d", "r", "i", "v", "e", "r", "s" >>
      [] s = "intrinsic_driven" ->
            << "i", "n", "t", "r", "i", "n", "s", "i", "c", "_", "d", "r", "i", "v", "e", "n" >>
      [] s = "mastery_focused" ->
            << "m", "a", "s", "t", "e", "r", "y", "_", "f", "o", "c", "u", "s", "e", "d" >>
      [] s = "learning_oriented" ->
            << "l", "e", "a", "r", "n", "i", "n", "g", "_", "o", "r", "i", "e", "n", "t", "e", "d" >>
      [] s = "moderate_resilience" ->
            << "m", "o", "d", "e", "r", "a", "t", "e", "_", "r", "e", "s", "i", "l", "i", "e", "n", "c", "e" >>
      [] s = "recovers_with_help" ->
            << "r", "e", "c", "o", "v", "e", "r", "s", "_", "w", "i", "t", "h", "_", "h", "e", "l", "p" >>
      [] s = "adaptable" ->
            << "a", "d", "a", "p", "t", "a", "b", "l", "e" >>
      [] s = "bounces_back" ->
            << "b", "o", "u", "n", "c", "e", "s", "_", "b", "a", "c", "k" >>
      [] s = "self_recovering" ->
            << "s", "e", "l", "f", "_", "r", "e", "c", "o", "v", "e", "r", "i", "n", "g" >>
      [] s = "strong_resilience" ->
            << "s", "t", "r", "o", "n", "g", "_", "r", "e", "s", "i", "l", "i", "e", "n", "c", "e" >>
      [] s = "moderate_confidence" ->
            << "m", "o", "d", "e", "r", "a", "t", "e", "_", "c", "o", "n", "f", "i", "d", "e", "n", "c", "e" >>
      [] s = "situational_confidence" ->
            << "s", "i", "t", "u", "a", "t", "i", "o", "n", "a", "l", "_", "c", "o", "n", "f", "i", "d", "e", "n", "c", "e" >>
      [] s = "developing" ->
            << "d", "e", "v", "e", "l", "o", "p", "i", "n", "g" >>
      [] s = "high_confidence" ->
            << "h", "i", "g", "h", "_", "c", "o", "n", "f", "i", "d", "e", "n", "c", "e" >>
      [] s = "capable" ->
            << "c", "a", "p", "a", "b", "l", "e" >>
      [] s = "self_assured" ->
            << "s", "e", "l", "f", "_", "a", "s", "s", "u", "r", "e", "d" >>
      [] s = "spontaneous" ->
            << "s", "p", "o", "n", "t", "a", "n", "e", "o", "u", "s" >>
      [] s = "improviser" ->
            << "i", "m", "p", "r", "o", "v", "i", "s", "e", "r" >>
      [] s = "balanced_planning" ->
            << "b", "a", "l", "a", "n", "c", "e", "d", "_", "p", "l", "a", "n", "n", "i", "n", "g" >>
      [] s = "adaptive_planning" ->
            << "a", "d", "a", "p", "t", "i", "v", "e", "_", "p", "l", "a", "n", "n", "i", "n", "g" >>
      [] s = "flexible_structure" ->
            << "f", "l", "e", "x", "i", "b", "l", "e", "_", "s", "t", "r", "u", "c", "t", "u", "r", "e" >>
      [] s = "receptive_with_caution" ->
            << "r", "e", "c", "e", "p", "t", "i", "v", "e", "_", "w", "i", "t", "h", "_", "c", "a", "u", "t", "i", "o", "n" >>
      [] s = "growth_oriented" ->
            << "g", "r", "o", "w", "t", "h", "_", "o", "r", "i", "e", "n", "t", "e", "d" >>
      [] s = "learner" ->
            << "l", "e", "a", "r", "n", "e", "r" >>
      [] s = "challenge_reframe" ->
            << "c", "h", "a", "l", "l", "e", "n", "g", "e", "_", "r", "e", "f", "r", "a", "m", "e" >>
      [] s = "strength_building" ->
            << "s", "t", "r", "e", "n", "g", "t", "h", "_", "b", "u", "i", "l", "d", "i", "n", "g" >>
      [] s = "purpose_reminder" ->
            << "p", "u", "r", "p", "o", "s", "e", "_", "r", "e", "m", "i", "n", "d", "e", "r" >>
      [] s = "learning_value" ->
            << "l", "e", "a", "r", "n", "i", "n", "g", "_", "v", "a", "l", "u", "e" >>
      [] s = "" -> << >>

\* str.lower()
lower(chars) ==
    [ i \in 1..Len(chars) |->
        IF \E k \in 1..Len(UpperCase) : UpperCase[k] = chars[i]
        THEN LowerCase[CHOOSE k \in 1..Len(UpperCase) : UpperCase[k] = chars[i]]
        ELSE chars[i] ]

\* tag.replace('_', ' ').split(): the words between the separators
RECURSIVE split(_, _)
split(chars, word) ==
    IF chars = << >> THEN (IF word = << >> THEN {} ELSE {word})
    ELSE IF Head(chars) \in { "_", " " }
    THEN (IF word = << >> THEN {} ELSE {word}) \cup split(Tail(chars), << >>)
    ELSE split(Tail(chars), Append(word, Head(chars)))

\* keywords.update(...) over the selected tags
Keywords(selected_tags) ==
    UNION { split(Spelling(tag), << >>) : tag \in selected_tags }

\* keyword in text_lower
Contains(chars, keyword) ==
    \E i \in 1..(Len(chars) - Len(keyword) + 1) :
        SubSeq(chars, i, i + Len(keyword) - 1) = keyword

\* isinstance(popup.get('value', 0.3), (int, float))
IsNumber(value) == value.kind \in { "absent", "number" }

GENERATED_TYPES == { "motivation", "sarcasm", "option_based" }

\* if keywords: any(keyword in text_lower for keyword in keywords)
MentionsKeyword(popup, selected_tags) ==
    LET keywords == Keywords(selected_tags)
    IN  IF keywords # {}
        THEN \E keyword \in keywords : Contains(lower(Spelling(popup.text)), keyword)
        ELSE TRUE

\* the (valid, reason) pair and the popup as the call leaves it
validate_generation(popup, selected_tags, category) ==
    LET emptied == IF popup.type # "option_based"
                   THEN [ popup EXCEPT !.options = << >> ] ELSE popup
    IN  IF popup.text = ""
        THEN [ valid |-> FALSE, reason |-> "Missing text", popup |-> popup ]
        ELSE IF popup.type \notin GENERATED_TYPES
        THEN [ valid |-> FALSE, reason |-> "Invalid type", popup |-> popup ]
        ELSE IF ~IsNumber(popup.value)
        THEN [ valid |-> FALSE, reason |-> "Missing value", popup |-> emptied ]
        ELSE IF ~MentionsKeyword(popup, selected_tags)
        THEN [ valid |-> FALSE, reason |-> "Text ignores personality tags",
               popup |-> emptied ]
        ELSE [ valid |-> TRUE, reason |-> "ok",
               popup |-> [ emptied EXCEPT !.category = category ] ]

NoValue == [ kind |-> "absent", number |-> 0 ]

NoGenerated ==
    [ text |-> "", type |-> "", options |-> << >>, value |-> NoValue, category |-> "" ]

NoGeneration ==
    [ popup |-> NoGenerated, selected_tags |-> {}, valid |-> FALSE, reason |-> "" ]

(***************************************************************************)
(* app.py: _preprocess_triggers.  The dataset maps a category to a list of *)
(* popups; a raw popup carries text, type and the two tag lists the code   *)
(* reads, and enumerate() numbers it from 0.  A processed popup keeps the  *)
(* fields the selector and get_next_trigger read: id ("" for the falsy     *)
(* index 0), text, type, value (in twentieths) and the set of its tags.    *)
(***************************************************************************)
\* list(dict.fromkeys(tags))
RECURSIVE Dedupe(_)
Dedupe(tags) ==
    IF tags = << >> THEN << >>
    ELSE LET front == Dedupe(SubSeq(tags, 1, Len(tags) - 1))
             last == tags[Len(tags)]
         IN  IF last \in SeqToSet(front) THEN front ELSE Append(front, last)

\* every tag some tier of TRAIT_TO_TAG_MAPPING lists
TraitTags ==
    UNION { SeqToSet(TRAIT_TO_TAG_MAPPING[d][tier]) :
              d \in MappedDimensions, tier \in { "low", "medium", "high" } }

fuzzy_map ==
    << [ key |-> "anxious", mapped |-> << "anxious_response", "needs_calm" >> ],
       [ key |-> "confident", mapped |-> << "high_confidence", "capable" >> ],
       [ key |-> "organized", mapped |-> << "organized", "structured" >> ],
       [ key |-> "flexible", mapped |-> << "flexible", "adaptive" >> ],
       [ key |-> "creative", mapped |-> << "creative", "intuitive_learner" >> ],
       [ key |-> "systematic", mapped |-> << "systematic", "detail_oriented" >> ],
       [ key |-> "motivated", mapped |-> << "intrinsic_driven", "learning_oriented" >> ],
       [ key |-> "resilient", mapped |-> << "bounces_back", "strong_resilience" >> ] >>

map_trait_name_to_tags(trait_name) ==
    LET trait_lower == lower(Spelling(trait_name))
        hits == { i \in 1..Len(fuzzy_map) :
                    Contains(trait_lower, Spelling(fuzzy_map[i].key)) }
    IN  IF trait_name = "" THEN << "needs_support" >>
        ELSE IF trait_name \in TraitTags THEN << trait_name >>
        ELSE IF hits # {}
        THEN fuzzy_map[CHOOSE i \in hits : \A j \in hits : i <= j].mapped
        ELSE << "needs_support" >>

\* CATEGORY_TAG_ENRICHMENT.get(category, {}).get('base_tags', []), in order
base_tags(category) ==
    CASE category = "thoughts" -> << "analytical", "logical", "conceptual" >>
      [] category = "frustration" -> << "persistence", "resilience", "encouragement" >>
      [] category = "fear" -> << "reassurance", "confidence_building", "support" >>
      [] OTHER -> << >>

\* canonical_tags, deduplicated, or raw_tags when there are none
RECURSIVE canonical_tags(_)
canonical_tags(raw_tags) ==
    IF raw_tags = << >> THEN << >>
    ELSE map_trait_name_to_tags(Head(raw_tags)) \o canonical_tags(Tail(raw_tags))

\* the loop over base_tags: append the missing ones until there are two
RECURSIVE add_base_tags(_, _)
add_base_tags(tags, base) ==
    IF base = << >> THEN tags
    ELSE LET added == IF Head(base) \in SeqToSet(tags) THEN tags
                      ELSE Append(tags, Head(base))
         IN  IF Len(added) >= 2 THEN added ELSE add_base_tags(added, Tail(base))

NoGenericTags(tags) == tags

\* tags.extend(['supportive', 'encouragement']) when there are fewer than two
add_generic_tags(tags) ==
    IF Len(tags) < 2 THEN Dedupe(tags \o << "supportive", "encouragement" >>)
    ELSE tags

\* the tag list of a processed popup
enriched_tags(category, data) ==
    LET raw_tags == IF data.personality_tags # << >> THEN data.personality_tags
                    ELSE data.tags
        canonical == canonical_tags(raw_tags)
        tags == IF canonical # << >> THEN Dedupe(canonical) ELSE raw_tags
        based == IF Len(tags) < 2 THEN add_base_tags(tags, base_tags(category))
                 ELSE tags
    IN  add_generic_tags(based)

_preprocess_triggers(dataset) ==
    [ category \in DOMAIN dataset |->
        [ i \in 1..Len(dataset[category]) |->
            [ id |-> IF i = 1 THEN "" ELSE ToString(i - 1),
              text |-> dataset[category][i].text,
              type |-> dataset[category][i].type,
              value |-> dataset[category][i].value,
              tags |-> SeqToSet(enriched_tags(category, dataset[category][i])) ] ] ]

\* TRIGGERS_DATASET = {} (the file failed to load)
NoDataset == [ category \in {} |-> << >> ]

\* the trigger bookkeeping of a new UserSession, with the fields of the
\* session that get_next_trigger reads
TriggerSession ==
    [ popup_counter |-> 0,
      triggered_sentences |-> << >>,
      trigger_source_counts |-> [ chatgpt |-> 0, dataset |-> 0 ],
      current_difficulty |-> 100,
      personality_vector |-> EmptyVector ]

NoTrigger == [ text |-> "", type |-> "none", value |-> 0 ]

NoDelivery ==
    [ label |-> "", trigger |-> NoTrigger, source |-> "none", attempts |-> << >>,
      raised |-> FALSE ]

\* sheets_logger = None; of a GoogleSheetsLogger the model keeps whether
\* setup_connection got a worksheet, the number of rows the worksheet
\* holds and what the last log_response returned
NoLogger == [ configured |-> FALSE, worksheet |-> FALSE, rows |-> 0, logged |-> "none" ]

LogResponseRaises(logger, append_row) ==
    IF ~logger.worksheet
    THEN [ logger |-> [ logger EXCEPT !.logged = "false" ], raised |-> FALSE ]
    ELSE IF append_row = "ok"
    THEN [ logger |-> [ logger EXCEPT !.rows = @ + 1, !.logged = "true" ],
           raised |-> FALSE ]
    ELSE [ logger |-> logger, raised |-> TRUE ]

\* GoogleSheetsLogger.log_response: the logger after the call and whether
\* the call raised; append_row is what worksheet.append_row does, "ok" or
\* "raises"
log_response(logger, append_row) ==
    IF ~logger.worksheet
    THEN [ logger |-> [ logger EXCEPT !.logged = "false" ], raised |-> FALSE ]
    ELSE IF append_row = "ok"
    THEN [ logger |-> [ logger EXCEPT !.rows = @ + 1, !.logged = "true" ],
           raised |-> FALSE ]
    ELSE [ logger |-> [ logger EXCEPT !.logged = "false" ], raised |-> FALSE ]

ServicesIdle ==
    /\ generation = NoGeneration
    /\ trigger_session = TriggerSession
    /\ delivery = NoDelivery
    /\ sheets_logger = NoLogger
    /\ performance_log = << >>
    /\ personalized_groq_generator = FALSE
    /\ tag_picks = << >>
    /\ triggers_dataset = NoDataset
    /\ processed_triggers = NoDataset

ExtIdle == AppIdle /\ SelectorIdle /\ TrackerIdle /\ ThreadsIdle /\ ServicesIdle

(***************************************************************************)
(* app.py: get_next_trigger.  The session is the record of the trigger     *)
(* bookkeeping; the popup selector of the session is passed beside it.     *)
(* What the generation service answers is an input of each call: the API   *)
(* call raises, the content is empty or unparsable, or it parses to a      *)
(* popup.  A trigger payload keeps text, type and value; the value of a    *)
(* payload is in twentieths before apply_difficulty and in thousandths     *)
(* after it (the values of the model are tenths, so the product with a     *)
(* difficulty in hundredths has no more than three decimals).  An          *)
(* operator gives the set of the possible results of the function.         *)
(***************************************************************************)
\* PROCESSED_TRIGGERS.get(label, [])
DatasetPopups(label) ==
    IF label \in DOMAIN processed_triggers THEN processed_triggers[label] ELSE << >>

\* the payload of a dataset popup
DatasetTrigger(popup) ==
    [ text |-> popup.text, type |-> popup.type, value |-> popup.value ]

\* the payload of a generated popup; scaled.get('value', 0.5)
GeneratedTrigger(popup) ==
    [ text |-> popup.text, type |-> popup.type,
      value |-> IF popup.value.kind = "number" THEN popup.value.number ELSE 10 ]

\* what the generation service may answer to one request
GeneratorReplies ==
    { [ kind |-> "raises", popup |-> NoGenerated ],
      [ kind |-> "empty", popup |-> NoGenerated ],
      [ kind |-> "popup",
        popup |-> [ NoGenerated EXCEPT !.text = "Stay Calm", !.type = "motivation",
                                       !.value = [ kind |-> "number", number |-> 8 ] ] ],
      [ kind |-> "popup",
        popup |-> [ NoGenerated EXCEPT !.text = "Stay Calm", !.type = "option_based",
                                       !.options = << "a", "b", "c" >> ] ],
      [ kind |-> "popup",
        popup |-> [ NoGenerated EXCEPT !.text = "Stay Calm", !.type = "quiz",
                                       !.value = [ kind |-> "number", number |-> 8 ] ] ] }

\* PersonalizedGroqGenerator.generate_popup on one answer of the service:
\* the popup returned (found) or None, or the exception raised
generate_popup(service_reply, selected_tags, category) ==
    LET checked == validate_generation(service_reply.popup, selected_tags, category)
    IN  IF service_reply.kind = "raises"
        THEN [ found |-> FALSE, raised |-> TRUE, outcome |-> "raises",
               trigger |-> NoTrigger ]
        ELSE IF service_reply.kind = "empty"
        THEN [ found |-> FALSE, raised |-> FALSE, outcome |-> "nothing",
               trigger |-> NoTrigger ]
        ELSE IF ~checked.valid
        THEN [ found |-> FALSE, raised |-> FALSE, outcome |-> "malformed",
               trigger |-> NoTrigger ]
        ELSE [ found |-> TRUE, raised |-> FALSE, outcome |-> "popup",
               trigger |-> GeneratedTrigger(checked.popup) ]

ErrorsSurface(generator, session, label, force_option_based) ==
    IF ~generator
    THEN { [ found |-> FALSE, raised |-> FALSE, outcome |-> "unconfigured",
             trigger |-> NoTrigger ] }
    ELSE { generate_popup(service_reply,
                          get_tags_from_personality(session.personality_vector, label),
                          label) : service_reply \in GeneratorReplies }

\* get_chatgpt_trigger: the except clause turns an exception into None
get_chatgpt_trigger(generator, session, label, force_option_based) ==
    IF ~generator
    THEN { [ found |-> FALSE, raised |-> FALSE, outcome |-> "unconfigured",
             trigger |-> NoTrigger ] }
    ELSE { [ generate_popup(service_reply,
                            get_tags_from_personality(session.personality_vector, label),
                            label) EXCEPT !.raised = FALSE ] :
             service_reply \in GeneratorReplies }

GenerationFirst(generator, session, label) ==
    IF generator
    THEN { IF DatasetPopups(label) # << >> THEN << "chatgpt", "dataset" >>
           ELSE << "chatgpt" >> }
    ELSE IF DatasetPopups(label) # << >> THEN { << "dataset" >> } ELSE { << >> }

\* the possible source orders
_determine_trigger_source_order(generator, session, label) ==
    LET ai_available == generator
        dataset_available == DatasetPopups(label) # << >>
        ai_count == session.trigger_source_counts.chatgpt
        dataset_count == session.trigger_source_counts.dataset
        total == ai_count + dataset_count
        preferred == IF total = 0 THEN { "chatgpt" }
                     ELSE IF 2 * ai_count < total THEN { "chatgpt" }
                     ELSE IF 2 * ai_count > total THEN { "dataset" }
                     ELSE { "chatgpt", "dataset" }
    IN  IF ~ai_available /\ ~dataset_available THEN { << >> }
        ELSE IF ai_available /\ dataset_available
        THEN { << first, IF first = "chatgpt" THEN "dataset" ELSE "chatgpt" >> :
                 first \in preferred }
        ELSE IF ai_available THEN { << "chatgpt" >> }
        ELSE { << "dataset" >> }

\* the popups of the label not yet delivered, of the required type
AnyPopup(session, label, needs_option_based) ==
    LET popups == DatasetPopups(label)
    IN  { popups[i] : i \in { j \in 1..Len(popups) :
            ~needs_option_based \/ popups[j].type = "option_based" } }

Unused(session, label, needs_option_based) ==
    LET popups == DatasetPopups(label)
    IN  { popups[i] : i \in { j \in 1..Len(popups) :
            /\ popups[j].text \notin SeqToSet(session.triggered_sentences)
            /\ ~needs_option_based \/ popups[j].type = "option_based" } }

\* the popup returned (found) or None, with the selector after the call
_select_dataset_trigger(session, label, needs_option_based, selector, now) ==
    LET required_type == IF needs_option_based THEN "option_based" ELSE ""
        filtered == Unused(session, label, needs_option_based)
        others(after) ==
            IF filtered = {}
            THEN { [ found |-> FALSE, trigger |-> NoTrigger, selector |-> after ] }
            ELSE { [ found |-> TRUE, trigger |-> DatasetTrigger(popup),
                     selector |-> after ] : popup \in filtered }
    IN  IF DatasetPopups(label) = << >>
        THEN { [ found |-> FALSE, trigger |-> NoTrigger, selector |-> selector ] }
        ELSE UNION {
               IF s.popup # NoPopup
                  /\ s.popup.text \notin SeqToSet(session.triggered_sentences)
               THEN { [ found |-> TRUE, trigger |-> DatasetTrigger(s.popup),
                        selector |-> s.selector ] }
               ELSE others(s.selector) :
               s \in select_popup(selector, session.personality_vector, label,
                                  processed_triggers, required_type, now) }

UnusedOnly(session, label) == Unused(session, label, FALSE)

\* the popups _fallback_dataset_trigger may return (none: the empty set)
_fallback_dataset_trigger(session, label) ==
    LET popups == SeqToSet(DatasetPopups(label))
        unused == Unused(session, label, FALSE)
    IN  IF unused # {} THEN unused ELSE popups

_record_trigger_delivery(session, trigger_payload, next_count, source) ==
    [ session EXCEPT
        !.triggered_sentences = Append(@, trigger_payload.text),
        !.popup_counter = next_count,
        !.trigger_source_counts[source] = @ + 1 ]

\* round(value * session.current_difficulty, 3), in thousandths
apply_difficulty(trigger_payload, session) ==
    [ trigger_payload EXCEPT !.value = (@ * session.current_difficulty) \div 2 ]

\* the return of get_next_trigger for a trigger found at a source
Delivered(session, selector, trigger, source, attempts) ==
    [ trigger |-> apply_difficulty(trigger, session),
      source |-> source,
      session |-> _record_trigger_delivery(session, trigger,
                                           session.popup_counter + 1, source),
      selector |-> selector,
      attempts |-> attempts,
      raised |-> FALSE ]

\* the two loops of get_next_trigger as one list of (requirement, source)
TriggerPlan(source_order, needs_option_based) ==
    LET first == [ i \in 1..Len(source_order) |->
                     [ source |-> source_order[i],
                       require_options |-> needs_option_based ] ]
        second == [ i \in 1..Len(source_order) |->
                      [ source |-> source_order[i], require_options |-> FALSE ] ]
    IN  IF needs_option_based THEN first \o second ELSE first

\* the rest of the loops, then the final fallback; attempts lists what each
\* call of the generation service came to
RECURSIVE try_sources(_, _, _, _, _, _, _)
try_sources(plan, generator, session, label, selector, attempts, now) ==
    IF plan = << >>
    THEN LET pool == _fallback_dataset_trigger(session, label)
         IN  IF pool = {}
             THEN { [ trigger |-> NoTrigger, source |-> "none", session |-> session,
                      selector |-> selector, attempts |-> attempts, raised |-> FALSE ] }
             ELSE { Delivered(session, selector, DatasetTrigger(popup), "dataset",
                              attempts) : popup \in pool }
    ELSE IF Head(plan).source = "chatgpt"
    THEN UNION {
           IF g.raised
           THEN { [ trigger |-> NoTrigger, source |-> "none", session |-> session,
                    selector |-> selector, attempts |-> Append(attempts, g.outcome),
                    raised |-> TRUE ] }
           ELSE IF g.found
           THEN { Delivered(session, selector, g.trigger, "chatgpt",
                            Append(attempts, g.outcome)) }
           ELSE try_sources(Tail(plan), generator, session, label, selector,
                            Append(attempts, g.outcome), now) :
           g \in get_chatgpt_trigger(generator, session, label,
                                     Head(plan).require_options) }
    ELSE UNION {
           IF d.found
           THEN { Delivered(session, d.selector, d.trigger, "dataset", attempts) }
           ELSE try_sources(Tail(plan), generator, session, label, d.selector,
                            attempts, now) :
           d \in _select_dataset_trigger(session, label, Head(plan).require_options,
                                         selector, now) }

\* the possible results of get_next_trigger: the (trigger, source) pair
\* returned, the session and its selector after the call, and whether an
\* exception left the function
get_next_trigger(generator, session, label, selector, now) ==
    LET next_count == session.popup_counter + 1
        needs_option_based == next_count % 2 = 0
    IN  UNION {
          IF source_order = << >>
          THEN { [ trigger |-> NoTrigger, source |-> "none", session |-> session,
                   selector |-> selector, attempts |-> << >>, raised |-> FALSE ] }
          ELSE try_sources(TriggerPlan(source_order, needs_option_based), generator,
                           session, label, selector, << >>, now) :
          source_order \in _determine_trigger_source_order(generator, session, label) }

(***************************************************************************)
(* app.py: submit_response.  A request carries the fields of the trigger   *)
(* and of the response that the route reads; the route serves it in the    *)
(* steps below, each one access to the session the requests share.  Times  *)
(* are in centiseconds, whole seconds in the requests of the model; the    *)
(* tracker takes them in seconds.                                          *)
(***************************************************************************)
\* session.meter_calculator.trigger_history.get(trigger_text, 0)
read_repeat_count(session, request) ==
    HistoryCount(session.trigger_history, request.trigger_text)

\* TriggerResponse(..., repeat_count=repeat_count)
trigger_response(request, repeat_count) ==
    [ trigger_text |-> request.trigger_text,
      trigger_type |-> request.trigger_type,
      category |-> request.category,
      trigger_value |-> request.trigger_value,
      time_taken |-> request.time_taken,
      selected_option |-> request.selected_option,
      main_question_correct |-> request.main_question_correct,
      main_question_time |-> request.main_question_time,
      repeat_count |-> repeat_count ]

\* calculate_meter_update up to its step 4, on the history as it is now
calculate_update(session, request, repeat_count) ==
    calculate_meter_update(DefaultCalibration, session.trigger_history,
                           trigger_response(request, repeat_count))

TrackFirstOnly(session, request, repeat_count) ==
    [ session EXCEPT !.trigger_history =
        [ t \in DOMAIN @ \cup {request.trigger_text} |->
            IF t = request.trigger_text THEN 1 ELSE @[t] ] ]

\* self.trigger_history[response.trigger_text] = response.repeat_count + 1
track_trigger(session, request, repeat_count) ==
    [ session EXCEPT !.trigger_history =
        TrackTrigger(@, trigger_response(request, repeat_count)) ]

\* session.meter_state = new_state
store_meter_state(session, current_state, upd) ==
    [ session EXCEPT !.meter_state = apply_updates_to_meters(current_state, upd) ]

\* add_performance, get_difficulty_adjustment and session.responses.append
log_answer(session, request) ==
    LET window == add_performance(session.performance_window,
                                  request.main_question_correct,
                                  request.main_question_time)
    IN  [ session EXCEPT
            !.performance_window = window,
            !.current_difficulty = get_difficulty_adjustment(window),
            !.responses = @ + 1 ]

\* the tracker update that follows the logging
track_performance(session, request, now) ==
    LET tracked == session.personality_vector # EmptyVector
        manager ==
            IF tracked
            THEN update_personality_from_performance(
                     session.session_manager,
                     [ correct |-> request.main_question_correct,
                       response_time |-> request.main_question_time \div 100,
                       category |-> request.category ], now)
            ELSE session.session_manager
    IN  [ session EXCEPT
            !.session_manager = manager,
            !.personality_vector =
                IF tracked THEN manager.current_personality_vector ELSE @ ]

\* the rest of the route when nothing is logged: difficulty, the response
\* log and the tracker
record_response(session, request, now) ==
    track_performance(log_answer(session, request), request, now)

(***************************************************************************)
(* app.py: the session map and the routes that take a session id.  A       *)
(* session id is user_id, int(time.time()) and a random suffix; the model  *)
(* keeps the three parts as a record.                                      *)
(***************************************************************************)
\* f"{user_id}_{int(time.time())}_{suffix}"
SessionId(user_id, now, suffix) ==
    [ user_id |-> user_id, time |-> now, suffix |-> suffix ]

NoSessionId == SessionId("", 0, 0)

\* the ids _create_new_session can return: any suffix whose id is not in
\* the map (the loop draws again while the id is in the map)
_create_new_session(user_id, suffixes, now) ==
    { SessionId(user_id, now, suffix) : suffix \in suffixes } \ DOMAIN user_sessions

\* the route /api/start-session
start_session(user_id, session_id) ==
    IF user_id = ""
    THEN /\ reply' = Reply("start_session", NoSessionId, 400)
         /\ UNCHANGED user_sessions
    ELSE /\ reply' = Reply("start_session", session_id, 200)
         /\ user_sessions' =
               [ id \in DOMAIN user_sessions \cup {session_id} |->
                   IF id = session_id THEN UserSession(user_id)
                   ELSE user_sessions[id] ]

\* the route /api/session/<session_id>
get_session_snapshot(session_id) ==
    /\ reply' = Reply("get_session_snapshot", session_id,
                      IF session_id \in DOMAIN user_sessions THEN 200 ELSE 404)
    /\ UNCHANGED user_sessions

\* the route /api/submit-response, served without interruption; an
\* exception that leaves the route is answered with status 500
submit_response(session_id, request, append_row) ==
    IF session_id \notin DOMAIN user_sessions
    THEN /\ reply' = Reply("submit_response", session_id, 404)
         /\ UNCHANGED << user_sessions, sheets_logger >>
    ELSE IF ~user_sessions[session_id].personality_completed
    THEN /\ reply' = Reply("submit_response", session_id, 400)
         /\ UNCHANGED << user_sessions, sheets_logger >>
    ELSE LET session == user_sessions[session_id]
             repeat_count == read_repeat_count(session, request)
             upd == calculate_update(session, request, repeat_count)
             tracked == track_trigger(session, request, repeat_count)
             stored == store_meter_state(tracked, session.meter_state, upd)
             answered == log_answer(stored, request)
             logged == IF sheets_logger.configured
                       THEN log_response(sheets_logger, append_row)
                       ELSE [ logger |-> sheets_logger, raised |-> FALSE ]
         IN  /\ sheets_logger' = logged.logger
             /\ IF logged.raised
                THEN /\ reply' = Reply("submit_response", session_id, 500)
                     /\ user_sessions' = [ user_sessions EXCEPT ![session_id] = answered ]
                ELSE /\ reply' = Reply("submit_response", session_id, 200)
                     /\ user_sessions' =
                           [ user_sessions EXCEPT ![session_id] =
                               track_performance(answered, request, clock) ]

\* the route /api/end-session
end_session(session_id) ==
    IF session_id \notin DOMAIN user_sessions
    THEN /\ reply' = Reply("end_session", session_id, 404)
         /\ UNCHANGED user_sessions
    ELSE /\ reply' = Reply("end_session", session_id, 200)
         /\ user_sessions' =
               [ id \in DOMAIN user_sessions \ {session_id} |-> user_sessions[id] ]

\* the answer of get_trigger: no_trigger_available or trigger_ready
TriggerReply(session_id, label, outcome) ==
    [ label |-> label, trigger |-> outcome.trigger, source |-> outcome.source,
      attempts |-> outcome.attempts, raised |-> outcome.raised ]

Ungated(session_id, question_index, label) ==
    IF session_id \notin DOMAIN user_sessions
    THEN /\ reply' = Reply("get_trigger", session_id, 404)
         /\ UNCHANGED << user_sessions, delivery >>
    ELSE \E outcome \in get_next_trigger(personalized_groq_generator,
                                         user_sessions[session_id], label,
                                         user_sessions[session_id].popup_selector,
                                         clock) :
             /\ reply' = Reply("get_trigger", session_id, 200)
             /\ delivery' = TriggerReply(session_id, label, outcome)
             /\ user_sessions' =
                   [ user_sessions EXCEPT ![session_id] =
                       [ outcome.session EXCEPT
                           !.current_question_index = question_index,
                           !.popup_selector = outcome.selector ] ]

\* the route /api/get-trigger; the session passed to get_next_trigger has
\* its current_question_index set, and its popup selector is the one the
\* call leaves
get_trigger(session_id, question_index, label) ==
    IF session_id \notin DOMAIN user_sessions
    THEN /\ reply' = Reply("get_trigger", session_id, 404)
         /\ UNCHANGED << user_sessions, delivery >>
    ELSE IF ~user_sessions[session_id].personality_completed
    THEN /\ reply' = Reply("get_trigger", session_id, 400)
         /\ UNCHANGED << user_sessions, delivery >>
    ELSE \E outcome \in get_next_trigger(personalized_groq_generator,
                                         user_sessions[session_id], label,
                                         user_sessions[session_id].popup_selector,
                                         clock) :
             /\ reply' = Reply("get_trigger", session_id, 200)
             /\ delivery' = TriggerReply(session_id, label, outcome)
             /\ user_sessions' =
                   [ user_sessions EXCEPT ![session_id] =
                       [ outcome.session EXCEPT
                           !.current_question_index = question_index,
                           !.popup_selector = outcome.selector ] ]

(***************************************************************************)
(* Spec: the meter engine under sequences of trigger responses             *)
(***************************************************************************)
Texts == {"T1", "T2"}
Categories == {"fear", "thoughts", "frustration"}

Responses ==
    [ trigger_text : Texts,
      trigger_type : {"option_based", "sarcasm", "motivation"},
      category : Categories,
      trigger_value : {0 - 10, 20},
      time_taken : {300},
      selected_option : {None, 0},
      main_question_correct : {FALSE},
      main_question_time : {500},
      repeat_count : 0..1 ]

Init ==
    /\ calibration = DefaultCalibration
    /\ meter_state = ZeroMeters
    /\ trigger_history = EmptyHistory
    /\ updates = NoUpdates
    /\ response = NoResponse
    /\ budget = MaxResponses
    /\ DifficultyIdle
    /\ ProfilerIdle
    /\ ExtIdle

Respond ==
    /\ budget > 0
    /\ \E r \in Responses : process_trigger_response(r)
    /\ budget' = budget - 1
    /\ UNCHANGED << difficultyVars, profilerVars, extVars >>

Next == Respond

Spec == Init /\ [][Next]_vars

(***************************************************************************)
(* SpecImpact: calculate_meter_update as a function of one response and    *)
(* the number of earlier showings of its text                              *)
(***************************************************************************)
ImpactResponses ==
    [ trigger_text : {"T1"},
      trigger_type : {"option_based", "sarcasm", "motivation", "unknown"},
      category : {"fear"},
      trigger_value : {0 - 10, 15, 20},
      time_taken : {200, 300, 500},
      selected_option : {None, 0, 1, 2, 3},
      main_question_correct : BOOLEAN,
      main_question_time : {200, 300, 500},
      repeat_count : 0..MaxRepeat ]

InitImpact ==
    /\ calibration \in [ baseline_reaction_time : {BASELINE_REACTION_TIME},
                         processing_speed : ProcessingSpeeds ]
    /\ meter_state = ZeroMeters
    /\ response \in ImpactResponses
    /\ trigger_history =
          IF response.repeat_count = 0 THEN EmptyHistory
          ELSE [ t \in {response.trigger_text} |-> response.repeat_count ]
    /\ updates = NoUpdates
    /\ budget = 1
    /\ DifficultyIdle
    /\ ProfilerIdle
    /\ ExtIdle

ApplyDrawn ==
    /\ budget > 0
    /\ process_trigger_response(response)
    /\ budget' = budget - 1
    /\ UNCHANGED << difficultyVars, profilerVars, extVars >>

NextImpact == ApplyDrawn

SpecImpact == InitImpact /\ [][NextImpact]_vars

(***************************************************************************)
(* SpecDecay: apply_updates_to_meters under repeated zero-impact updates   *)
(***************************************************************************)
MeterSamples == {0, 450, MAX_METER}

SettleResponses ==
    [ trigger_text : {"T1"},
      trigger_type : {"sarcasm", "unknown"},
      category : {"fear", "other"},
      trigger_value : {0, 10},
      time_taken : {300},
      selected_option : {None},
      main_question_correct : {TRUE},
      main_question_time : {300},
      repeat_count : {0} ]

ZeroImpact(upd) == upd.fear = 0 /\ upd.thoughts = 0 /\ upd.frustration = 0

InitDecay ==
    /\ calibration = DefaultCalibration
    /\ meter_state \in [ fear_meter : MeterSamples, thought_meter : MeterSamples,
                         frustration_meter : MeterSamples ]
    /\ trigger_history = EmptyHistory
    /\ updates = NoUpdates
    /\ response = NoResponse
    /\ budget = 0
    /\ DifficultyIdle
    /\ ProfilerIdle
    /\ ExtIdle

Settle ==
    /\ \E r \in SettleResponses :
          /\ ZeroImpact(calculate_meter_update(calibration, trigger_history, r))
          /\ process_trigger_response(r)
    /\ UNCHANGED << budget, difficultyVars, profilerVars, extVars >>

NextDecay == Settle

SpecDecay == InitDecay /\ [][NextDecay]_vars /\ WF_vars(Settle)

(***************************************************************************)
(* SpecDifficulty: the difficulty controller                               *)
(***************************************************************************)
PerformanceTimes == {200, 350, 500, 600}

\* the add_performance calls of a run
MaxCalls == 5

InitDifficulty ==
    /\ MeterIdle
    /\ DifficultyIdle
    /\ ProfilerIdle
    /\ ExtIdle

AddPerformance ==
    /\ Len(performance_log) < MaxCalls
    /\ \E correct \in BOOLEAN, time_taken \in PerformanceTimes :
          /\ performance_window' = add_performance(performance_window, correct, time_taken)
          /\ performance_log' =
                Append(performance_log, [correct |-> correct, time |-> time_taken])
    /\ UNCHANGED << current_difficulty, meterVars, profilerVars, appVars, selectorVars,
                    trackerVars, threads, ended_sessions, generation, trigger_session,
                    delivery, sheets_logger, personalized_groq_generator, tag_picks,
                    datasetVars >>

GetDifficultyAdjustment ==
    /\ current_difficulty' = get_difficulty_adjustment(performance_window)
    /\ UNCHANGED << performance_window, meterVars, profilerVars, extVars >>

NextDifficulty == AddPerformance \/ GetDifficultyAdjustment

SpecDifficulty == InitDifficulty /\ [][NextDifficulty]_vars

(***************************************************************************)
(* SpecProfiler: analyze_responses on a loaded quiz                        *)
(***************************************************************************)
QuizAnswers ==
    [ question_id : 1..(Len(QuestionBank) + 1),
      option_index : {None, 0, 1, 2} ]

ResponseLists ==
    UNION { [1..n -> QuizAnswers] : n \in (total_questions - 1)..total_questions }

InitProfiler ==
    /\ MeterIdle
    /\ DifficultyIdle
    /\ questions \in ShuffledQuizzes
    /\ quiz_responses \in ResponseLists
    /\ result = NoResult
    /\ ExtIdle

AnalyzeResponses ==
    /\ result = NoResult
    /\ result' = analyze_responses(questions, quiz_responses)
    /\ UNCHANGED << questions, quiz_responses, meterVars, difficultyVars, extVars >>

NextProfiler == AnalyzeResponses

SpecProfiler == InitProfiler /\ [][NextProfiler]_vars

(***************************************************************************)
(* SpecSubmit: the route /api/personality/submit on one started session    *)
(***************************************************************************)
SubmitAnswers ==
    { [ question_id |-> 1, option_index |-> 0 ],
      [ question_id |-> 2, option_index |-> 1 ] }

SubmitLists ==
    UNION { [1..n -> SubmitAnswers] : n \in 0..(total_questions + 1) }

\* the quiz and the submissions of the question-cycle specification: an
\* empty list and two lists that end in different difficulty
\* recommendations
RouteQuizzes == { << 1, 2 >> }

RouteLists ==
    { << >>,
      << [ question_id |-> 1, option_index |-> 0 ],
         [ question_id |-> 1, option_index |-> 0 ] >>,
      << [ question_id |-> 1, option_index |-> 0 ],
         [ question_id |-> 2, option_index |-> 1 ] >> }

InitSubmit ==
    /\ MeterIdle
    /\ DifficultyIdle
    /\ questions \in ShuffledQuizzes
    /\ quiz_responses = << >>
    /\ result = NoResult
    /\ user_sessions = [ session_id \in {"s1"} |-> UserSession("u1") ]
    /\ reply = NoReply
    /\ clock = 0
    /\ SelectorIdle
    /\ TrackerIdle
    /\ ThreadsIdle
    /\ ServicesIdle

SubmitPersonalityAssessment ==
    /\ \E session_id \in {"s1", "s0"}, responses \in SubmitLists :
          /\ quiz_responses' = responses
          /\ submit_personality_assessment(session_id, responses)
    /\ UNCHANGED << questions, clock, meterVars, difficultyVars, selectorVars,
                    trackerVars, threads, ended_sessions,
                    serviceVars >>

NextSubmit == SubmitPersonalityAssessment

SpecSubmit == InitSubmit /\ [][NextSubmit]_vars

(***************************************************************************)
(* SpecPopup: a PopupSelector under a sequence of select_popup calls, with *)
(* time passing between the calls                                          *)
(***************************************************************************)
MaxSelections == 3
MaxClock == 33
\* three steps of time span the range of the clock
ClockStep == MaxClock \div 3

\* popups_by_category; "calm" is a category without tag enrichment
TriggerPopups ==
    [ fear |->
        << [ id |-> "f1", text |-> "t1", type |-> "sarcasm",
             tags |-> { "reassurance", "calming" } ],
           [ id |-> "f2", text |-> "t2", type |-> "option_based",
             tags |-> { "supportive", "encouragement" } ],
           [ id |-> "", text |-> "t3", type |-> "option_based",
             tags |-> { "needs_calm", "humor" } ],
           [ id |-> "f4", text |-> "t4", type |-> "sarcasm",
             tags |-> { "humor" } ] >>,
      calm |->
        << [ id |-> "f1", text |-> "t5", type |-> "motivation",
             tags |-> { "supportive", "humor" } ],
           [ id |-> "c2", text |-> "t6", type |-> "motivation",
             tags |-> { "humor", "wit" } ] >> ]

PopupVectors ==
    { EmptyVector,
      [ stress_sensitivity |-> 80 ] }

PopupCategories == { "fear", "calm", "other" }

RECURSIVE CategoryUses(_, _)
CategoryUses(history, categories) ==
    IF categories = {} THEN 0
    ELSE LET c == CHOOSE x \in categories : TRUE
         IN  Len(history[c]) + CategoryUses(history, categories \ {c})

\* the number of selections recorded so far
Selections(selector) ==
    CategoryUses(selector.trait_weighting.category_history,
                 DOMAIN selector.trait_weighting.category_history)

InitPopup ==
    /\ MeterIdle
    /\ DifficultyIdle
    /\ ProfilerIdle
    /\ AppIdle
    /\ SelectorIdle
    /\ TrackerIdle
    /\ ThreadsIdle
    /\ ServicesIdle

Tick ==
    /\ clock + ClockStep <= MaxClock
    /\ clock' = clock + ClockStep
    /\ UNCHANGED << user_sessions, reply, selectorVars, meterVars, difficultyVars,
                    profilerVars, trackerVars, threads, ended_sessions,
                    serviceVars >>

SelectPopup ==
    /\ Selections(popup_selector) < MaxSelections
    /\ \E vector \in PopupVectors, category \in PopupCategories,
          required_type \in { "", "option_based" } :
          \E s \in select_popup(popup_selector, vector, category, TriggerPopups,
                                required_type, clock) :
              /\ popup_selector' = s.selector
              /\ selection' = [ vector |-> vector, category |-> category,
                                required_type |-> required_type, popup |-> s.popup ]
    /\ UNCHANGED << selection_log, tag_weights, appVars, meterVars, difficultyVars,
                    profilerVars, trackerVars, threads, ended_sessions,
                    serviceVars >>

NextPopup == SelectPopup \/ Tick

SpecPopup == InitPopup /\ [][NextPopup]_vars

(***************************************************************************)
(* SpecWeights: calculate_tag_weights as a function of the candidate tags, *)
(* the personality vector and the tag-use history                          *)
(***************************************************************************)
MaxUses == 5
WeightsNow == MIN_TAG_REPEAT_MINUTES + 5

WeightTags == { "needs_calm", "anxious_response", "calm_under_pressure", "humor" }

WeightVectors ==
    { EmptyVector, [ stress_sensitivity |-> 80 ], [ stress_sensitivity |-> 75 ] }

\* use histories of one tag: up to MaxUses uses, all 5 or all 20 minutes ago,
\* or one of each
UseHistories ==
    { [ i \in 1..n |-> WeightsNow - age ] : n \in 0..MaxUses, age \in { 5, 20 } }
      \cup { << WeightsNow - 20, WeightsNow - 5 >> }

\* the tag_history dict for the given uses of needs_calm and of humor
TagHistory(calm_uses, humor_uses) ==
    [ tag \in (IF calm_uses # << >> THEN { "needs_calm" } ELSE {})
                \cup (IF humor_uses # << >> THEN { "humor" } ELSE {}) |->
        IF tag = "needs_calm" THEN calm_uses ELSE humor_uses ]

InitWeights ==
    /\ MeterIdle
    /\ DifficultyIdle
    /\ ProfilerIdle
    /\ user_sessions = NoSessions
    /\ reply = NoReply
    /\ clock = WeightsNow
    /\ \E calm_uses \in UseHistories, humor_uses \in UseHistories :
          popup_selector =
              [ PopupSelector EXCEPT
                  !.trait_weighting.tag_history = TagHistory(calm_uses, humor_uses) ]
    /\ selection = NoSelection
    /\ selection_log = << >>
    /\ \E candidate_tags \in SUBSET WeightTags, vector \in WeightVectors :
          tag_weights = [ NoWeights EXCEPT !.candidate_tags = candidate_tags,
                                          !.vector = vector ]
    /\ TrackerIdle
    /\ ThreadsIdle
    /\ ServicesIdle

CalculateTagWeights ==
    /\ tag_weights.candidate_tags # {}
    /\ tag_weights' =
          [ tag_weights EXCEPT
              !.weights = calculate_tag_weights(popup_selector.trait_weighting,
                                                tag_weights.candidate_tags,
                                                tag_weights.vector, clock) ]
    /\ UNCHANGED << popup_selector, selection, selection_log, appVars, meterVars, difficultyVars,
                    profilerVars, trackerVars, threads, ended_sessions,
                    serviceVars >>

NextWeights == CalculateTagWeights

SpecWeights == InitWeights /\ [][NextWeights]_vars

(***************************************************************************)
(* SpecPicks: one TraitWeighting under a sequence of calls of              *)
(* select_popup_with_weighting on the pools of the dataset, all within one *)
(* minute of the clock                                                     *)
(***************************************************************************)
MaxPicks == 4

PickPools == { TriggerPopups[category] : category \in DOMAIN TriggerPopups }

InitPicks ==
    /\ MeterIdle
    /\ DifficultyIdle
    /\ ProfilerIdle
    /\ ExtIdle

PickPopup ==
    /\ Len(tag_picks) < MaxPicks
    /\ \E popup_pool \in PickPools, vector \in PopupVectors :
          \E pick \in chosen_tag(PoolTags(popup_pool), vector,
                                 popup_selector.trait_weighting, clock) :
              /\ [ popup |-> tag_to_popup(popup_pool, pick.tag),
                    weighting |-> pick.weighting ]
                    \in select_popup_with_weighting(popup_pool, vector,
                                                    popup_selector.trait_weighting, clock)
              /\ popup_selector' = [ popup_selector EXCEPT !.trait_weighting = pick.weighting ]
              /\ selection' = [ NoSelection EXCEPT
                                  !.vector = vector,
                                  !.popup = tag_to_popup(popup_pool, pick.tag) ]
              /\ tag_picks' = Append(tag_picks, pick.tag)
    /\ UNCHANGED << selection_log, tag_weights, appVars, trackerVars, threads, ended_sessions,
                    generation, trigger_session, delivery, sheets_logger,
                    performance_log, personalized_groq_generator, datasetVars, meterVars,
                    difficultyVars, profilerVars >>

NextPicks == PickPopup

SpecPicks == InitPicks /\ [][NextPicks]_vars

(***************************************************************************)
(* SpecVariety: one TraitWeighting under a longer sequence of calls of     *)
(* select_popup_with_weighting on two small pools, so that five recorded   *)
(* picks of two tags are reached; `selection` keeps the name of the pool   *)
(***************************************************************************)
MaxVariety == 6

VarietyPopup(text, tags) ==
    [ id |-> text, text |-> text, type |-> "motivation", tags |-> tags ]

VarietyPools ==
    [ pair |-> << VarietyPopup("v1", { "humor" }), VarietyPopup("v2", { "wit" }) >>,
      humorous |-> << VarietyPopup("v1", { "humor" }),
                      VarietyPopup("v3", { "humor", "supportive" }) >> ]

InitVariety ==
    /\ MeterIdle
    /\ DifficultyIdle
    /\ ProfilerIdle
    /\ ExtIdle

PickVaried ==
    /\ Len(tag_picks) < MaxVariety
    /\ \E name \in DOMAIN VarietyPools :
          \E pick \in chosen_tag(PoolTags(VarietyPools[name]), EmptyVector,
                                 popup_selector.trait_weighting, clock) :
              /\ [ popup |-> tag_to_popup(VarietyPools[name], pick.tag),
                    weighting |-> pick.weighting ]
                    \in select_popup_with_weighting(VarietyPools[name], EmptyVector,
                                                    popup_selector.trait_weighting, clock)
              /\ popup_selector' = [ popup_selector EXCEPT !.trait_weighting = pick.weighting ]
              /\ selection' = [ NoSelection EXCEPT
                                  !.category = name,
                                  !.popup = tag_to_popup(VarietyPools[name], pick.tag) ]
              /\ tag_picks' = Append(tag_picks, pick.tag)
    /\ UNCHANGED << selection_log, tag_weights, appVars, trackerVars, threads, ended_sessions,
                    generation, trigger_session, delivery, sheets_logger,
                    performance_log, personalized_groq_generator, datasetVars, meterVars,
                    difficultyVars, profilerVars >>

NextVariety == PickVaried

SpecVariety == InitVariety /\ [][NextVariety]_vars

(***************************************************************************)
(* SpecTracker: a SessionManager, fresh or seeded with the Profiler's      *)
(* output, under a sequence of update_personality_from_performance calls,  *)
(* with time passing between the calls                                     *)
(***************************************************************************)
MaxPopups == 10

\* the answers after which the tracker was seeded
TrackerAnswers ==
    { << [ question_id |-> 1, option_index |-> 0 ], [ question_id |-> 2, option_index |-> 1 ] >>,
      << [ question_id |-> 2, option_index |-> 0 ], [ question_id |-> 3, option_index |-> 1 ] >> }

\* { 'correct': answer_correct, 'response_time': question_time, 'category': label }
PopupPerformances ==
    { [ correct |-> TRUE, response_time |-> 10, category |-> "fear" ],
      [ correct |-> FALSE, response_time |-> 40, category |-> "thoughts" ] }

InitTracker ==
    /\ MeterIdle
    /\ DifficultyIdle
    /\ AppIdle
    /\ SelectorIdle
    /\ ThreadsIdle
    /\ ServicesIdle
    /\ \/ /\ ProfilerIdle
          /\ session_manager = SessionManager("u1")
       \/ /\ quiz_responses \in TrackerAnswers
          /\ questions = [ i \in 1..Len(quiz_responses) |-> quiz_responses[i].question_id ]
          /\ result = analyze_responses(questions, quiz_responses)
          /\ session_manager =
                load_initial_personality(SessionManager("u1"),
                                         result.personality_vector, 0)

UpdatePersonalityFromPerformance ==
    /\ Len(session_manager.performance_history) < MaxPopups
    /\ \E popup_performance \in PopupPerformances :
          session_manager' =
              update_personality_from_performance(session_manager,
                                                  popup_performance, clock)
    /\ UNCHANGED << appVars, selectorVars, threads, ended_sessions, serviceVars, meterVars,
                    difficultyVars,
                    profilerVars >>

NextTracker == UpdatePersonalityFromPerformance \/ Tick

SpecTracker == InitTracker /\ [][NextTracker]_vars

(***************************************************************************)
(* SpecRecompute: update_personality_from_performance calls on a           *)
(* SessionManager that already holds performance records, made when a      *)
(* recompute is due by time (clock 11, last update at 0) or by count       *)
(***************************************************************************)
MaxRecords == 12

\* vectors of the tracker: none, and one with values next to both bounds
RecomputeVectors ==
    { EmptyVector,
      [ stress_sensitivity |-> 96, analytical_thinking |-> 50,
        social_preference |-> 40, intrinsic_motivation |-> 2, resilience |-> 3,
        self_confidence |-> 60, impulsivity |-> 95, distraction_resistance |-> 0 ] }

\* n records of which the last `wrong` are wrong answers; the records older
\* than the last 10 differ from the others in answer, time and category
PerformanceHistory(n, wrong, slow, mixed, older_correct) ==
    [ i \in 1..n |->
        IF i <= n - 10
        THEN [ correct |-> older_correct,
               response_time |-> IF slow THEN 10 ELSE 40,
               category |-> "thoughts",
               timestamp |-> 0 ]
        ELSE [ correct |-> i <= n - wrong,
               response_time |-> IF slow THEN 40 ELSE 10,
               category |-> IF mixed /\ i % 2 = 1 THEN "thoughts" ELSE "fear",
               timestamp |-> 0 ] ]

PerformanceHistories ==
    { PerformanceHistory(n, wrong, slow, mixed, older_correct) :
        n \in { 0, 1, 2, 4, 9, MaxRecords - 2, MaxRecords - 1 },
        wrong \in { 0, 1, 3, 5, 7, 10 }, slow \in BOOLEAN, mixed \in BOOLEAN,
        older_correct \in BOOLEAN }

InitRecompute ==
    /\ MeterIdle
    /\ DifficultyIdle
    /\ ProfilerIdle
    /\ SelectorIdle
    /\ ThreadsIdle
    /\ ServicesIdle
    /\ user_sessions = NoSessions
    /\ reply = NoReply
    /\ clock \in { 0, trait_update_interval_minutes + 1 }
    /\ \E vector \in RecomputeVectors, history \in PerformanceHistories :
          \* a tracker without a vector was never loaded and never recomputed
          /\ vector = EmptyVector => Len(history) < 10
          /\ session_manager =
                [ ( IF vector = EmptyVector THEN SessionManager("u1")
                    ELSE load_initial_personality(SessionManager("u1"), vector, 0) )
                  EXCEPT !.performance_history = history,
                         !.popup_count_since_update = Len(history) % 10 ]

RecordPerformance ==
    /\ Len(session_manager.performance_history) < MaxRecords
    /\ \E popup_performance \in PopupPerformances :
          session_manager' =
              update_personality_from_performance(session_manager,
                                                  popup_performance, clock)
    /\ UNCHANGED << appVars, selectorVars, threads, ended_sessions, serviceVars, meterVars,
                    difficultyVars, profilerVars >>

NextRecompute == RecordPerformance

SpecRecompute == InitRecompute /\ [][NextRecompute]_vars

(***************************************************************************)
(* SpecRace: two submit_response requests for one session, served by two   *)
(* threads whose steps interleave freely                                   *)
(***************************************************************************)
Workers == { 1, 2 }

RaceRequests ==
    { [ trigger_text |-> "T1", trigger_type |-> "sarcasm", category |-> "fear",
        trigger_value |-> 10, time_taken |-> 500, selected_option |-> None,
        main_question_correct |-> FALSE, main_question_time |-> 500 ],
      [ trigger_text |-> "T1", trigger_type |-> "option_based", category |-> "thoughts",
        trigger_value |-> 15, time_taken |-> 300, selected_option |-> 0,
        main_question_correct |-> TRUE, main_question_time |-> 200 ],
      [ trigger_text |-> "T2", trigger_type |-> "motivation", category |-> "fear",
        trigger_value |-> 0 - 10, time_taken |-> 200, selected_option |-> None,
        main_question_correct |-> TRUE, main_question_time |-> 300 ] }

NoRequest ==
    [ trigger_text |-> "", trigger_type |-> "none", category |-> "none",
      trigger_value |-> 0, time_taken |-> 0, selected_option |-> None,
      main_question_correct |-> FALSE, main_question_time |-> 0 ]

\* a thread that serves no request; `after` is the set of threads whose
\* request was finished when this one's began
IdleThread ==
    [ pc |-> "idle", session_id |-> "", request |-> NoRequest, repeat_count |-> 0,
      current_state |-> ZeroMeters, updates |-> NoUpdates, after |-> {} ]

\* a session whose personality assessment has been submitted
CompletedSession ==
    LET answers == << [ question_id |-> 1, option_index |-> 0 ],
                      [ question_id |-> 2, option_index |-> 1 ] >>
    IN  integrate_with_session(UserSession("u1"),
                               analyze_responses(<< 1, 2 >>, answers), answers, 0)

InitRace ==
    /\ MeterIdle
    /\ DifficultyIdle
    /\ ProfilerIdle
    /\ SelectorIdle
    /\ TrackerIdle
    /\ user_sessions = [ session_id \in {"s1"} |-> CompletedSession ]
    /\ reply = NoReply
    /\ clock = 0
    /\ threads = [ w \in Workers |-> IdleThread ]
    /\ ended_sessions = {}
    /\ ServicesIdle

Step(w, from, to) ==
    /\ threads[w].pc = from
    /\ UNCHANGED << clock, selectorVars, trackerVars, ended_sessions, serviceVars, meterVars,
                    difficultyVars, profilerVars >>

\* app.py 829-856: the session is found and has completed the assessment
BeginSubmit(w) ==
    /\ Step(w, "idle", "count")
    /\ \E session_id \in DOMAIN user_sessions, request \in RaceRequests :
          /\ user_sessions[session_id].personality_completed
          /\ threads' = [ threads EXCEPT ![w] =
                [ @ EXCEPT !.pc = "count", !.session_id = session_id,
                           !.request = request,
                           !.after = { v \in Workers : threads[v].pc = "done" } ] ]
    /\ UNCHANGED << user_sessions, reply >>

\* app.py 858
ReadRepeatCount(w) ==
    /\ Step(w, "count", "state")
    /\ threads' = [ threads EXCEPT ![w] =
          [ @ EXCEPT !.pc = "state",
                     !.repeat_count =
                         read_repeat_count(user_sessions[threads[w].session_id],
                                           threads[w].request) ] ]
    /\ UNCHANGED << user_sessions, reply >>

\* app.py 873-876: the argument session.meter_state
ReadMeterState(w) ==
    /\ Step(w, "state", "calculate")
    /\ threads' = [ threads EXCEPT ![w] =
          [ @ EXCEPT !.pc = "calculate",
                     !.current_state =
                         user_sessions[threads[w].session_id].meter_state ] ]
    /\ UNCHANGED << user_sessions, reply >>

\* meter_calculation_v2.py 280-305
CalculateUpdate(w) ==
    /\ Step(w, "calculate", "track")
    /\ threads' = [ threads EXCEPT ![w] =
          [ @ EXCEPT !.pc = "track",
                     !.updates =
                         calculate_update(user_sessions[threads[w].session_id],
                                          threads[w].request,
                                          threads[w].repeat_count) ] ]
    /\ UNCHANGED << user_sessions, reply >>

\* meter_calculation_v2.py 308
TrackTriggerText(w) ==
    /\ Step(w, "track", "store")
    /\ user_sessions' = [ user_sessions EXCEPT ![threads[w].session_id] =
          track_trigger(@, threads[w].request, threads[w].repeat_count) ]
    /\ threads' = [ threads EXCEPT ![w].pc = "store" ]
    /\ UNCHANGED reply

\* meter_calculation_v2.py 387 and app.py 878
StoreMeterState(w) ==
    /\ Step(w, "store", "record")
    /\ user_sessions' = [ user_sessions EXCEPT ![threads[w].session_id] =
          store_meter_state(@, threads[w].current_state, threads[w].updates) ]
    /\ threads' = [ threads EXCEPT ![w].pc = "record" ]
    /\ UNCHANGED reply

\* app.py 879-934
RecordResponse(w) ==
    /\ Step(w, "record", "done")
    /\ user_sessions' = [ user_sessions EXCEPT ![threads[w].session_id] =
          record_response(@, threads[w].request, clock) ]
    /\ threads' = [ threads EXCEPT ![w].pc = "done" ]
    /\ reply' = Reply("submit_response", threads[w].session_id, 200)

NextRace ==
    \E w \in Workers :
        \/ BeginSubmit(w)
        \/ ReadRepeatCount(w)
        \/ ReadMeterState(w)
        \/ CalculateUpdate(w)
        \/ TrackTriggerText(w)
        \/ StoreMeterState(w)
        \/ RecordResponse(w)

SpecRace == InitRace /\ [][NextRace]_vars

(***************************************************************************)
(* SpecLogging: submit_response requests of one session, served one at a   *)
(* time, with and without a sheets logger; the worksheet may fail at each  *)
(* row                                                                     *)
(***************************************************************************)
MaxLogged == 3

\* no logger, a logger without worksheet (the connection failed), a logger
\* with its worksheet
Loggers ==
    { NoLogger,
      [ NoLogger EXCEPT !.configured = TRUE ],
      [ NoLogger EXCEPT !.configured = TRUE, !.worksheet = TRUE ] }

InitLogging ==
    /\ MeterIdle
    /\ DifficultyIdle
    /\ ProfilerIdle
    /\ SelectorIdle
    /\ TrackerIdle
    /\ ThreadsIdle
    /\ user_sessions = [ session_id \in {"s1"} |-> CompletedSession ]
    /\ reply = NoReply
    /\ clock = 0
    /\ generation = NoGeneration
    /\ trigger_session = TriggerSession
    /\ delivery = NoDelivery
    /\ sheets_logger \in Loggers
    /\ performance_log = << >>
    /\ personalized_groq_generator = FALSE
    /\ tag_picks = << >>
    /\ triggers_dataset = NoDataset
    /\ processed_triggers = NoDataset

\* one request served; `response` keeps the TriggerResponse the route built
SubmitLogged ==
    /\ user_sessions["s1"].responses < MaxLogged
    /\ \E request \in RaceRequests, append_row \in { "ok", "raises" } :
          /\ submit_response("s1", request, append_row)
          /\ response' = trigger_response(request,
                                          read_repeat_count(user_sessions["s1"], request))
    /\ UNCHANGED << clock, calibration, meter_state, trigger_history, updates, budget,
                    generation, trigger_session, delivery, performance_log,
                    personalized_groq_generator, tag_picks, datasetVars, selectorVars,
                    trackerVars, threads, ended_sessions, difficultyVars, profilerVars >>

NextLogging == SubmitLogged

SpecLogging == InitLogging /\ [][NextLogging]_vars

(***************************************************************************)
(* SpecTrigger: get_next_trigger calls of one session, for categories with *)
(* and without popups in the dataset, with the generation service          *)
(* configured or not and answering anything it may answer                  *)
(***************************************************************************)
MaxDeliveries == 3

\* TRIGGERS_DATASET: "fear" is an enriched category, "calm" is not
TriggerDataset ==
    [ fear |-> << [ text |-> "t1", type |-> "sarcasm", value |-> 10,
                    personality_tags |-> << >>, tags |-> << "humor" >> ],
                  [ text |-> "t2", type |-> "option_based", value |-> 6,
                    personality_tags |-> << >>, tags |-> << "needs_calm" >> ] >>,
      calm |-> << [ text |-> "t5", type |-> "motivation", value |-> 10,
                    personality_tags |-> << >>, tags |-> << >> ] >> ]

TriggerLabels == { "fear", "calm", "other" }

InitTrigger ==
    /\ MeterIdle
    /\ DifficultyIdle
    /\ ProfilerIdle
    /\ AppIdle
    /\ SelectorIdle
    /\ TrackerIdle
    /\ ThreadsIdle
    /\ generation = NoGeneration
    /\ \E vector \in PopupVectors, difficulty \in { 100, 115 } :
          trigger_session = [ TriggerSession EXCEPT !.personality_vector = vector,
                                                    !.current_difficulty = difficulty ]
    /\ delivery = NoDelivery
    /\ sheets_logger = NoLogger
    /\ performance_log = << >>
    /\ personalized_groq_generator \in BOOLEAN
    /\ tag_picks = << >>
    /\ triggers_dataset \in { NoDataset, TriggerDataset }
    /\ processed_triggers = _preprocess_triggers(triggers_dataset)

\* one call of get_next_trigger
GetNextTrigger ==
    /\ trigger_session.popup_counter < MaxDeliveries
    /\ \E label \in TriggerLabels :
          \E outcome \in get_next_trigger(personalized_groq_generator, trigger_session,
                                          label, popup_selector, clock) :
              /\ trigger_session' = outcome.session
              /\ popup_selector' = outcome.selector
              /\ delivery' = [ label |-> label, trigger |-> outcome.trigger,
                               source |-> outcome.source,
                               attempts |-> outcome.attempts,
                               raised |-> outcome.raised ]
    /\ UNCHANGED << selection, selection_log, tag_weights, generation, sheets_logger,
                    performance_log,
                    personalized_groq_generator, tag_picks, datasetVars, appVars,
                    trackerVars, threads, ended_sessions, meterVars, difficultyVars,
                    profilerVars >>

NextTrigger == GetNextTrigger

SpecTrigger == InitTrigger /\ [][NextTrigger]_vars

(***************************************************************************)
(* SpecRecency: select_popup calls of one session on the processed         *)
(* dataset, as _select_dataset_trigger makes them, with time passing       *)
(* between the calls; selection_log keeps every popup returned             *)
(***************************************************************************)
\* TRIGGERS_DATASET with two popups in each of two categories
RecencyDataset ==
    [ fear |-> << [ text |-> "t1", type |-> "sarcasm", value |-> 10,
                    personality_tags |-> << >>, tags |-> << "humor" >> ],
                  [ text |-> "t2", type |-> "option_based", value |-> 6,
                    personality_tags |-> << >>, tags |-> << "needs_calm" >> ] >>,
      calm |-> << [ text |-> "t5", type |-> "motivation", value |-> 10,
                    personality_tags |-> << >>, tags |-> << >> ],
                  [ text |-> "t6", type |-> "option_based", value |-> 10,
                    personality_tags |-> << >>, tags |-> << "humor" >> ] >> ]

InitRecency ==
    /\ MeterIdle
    /\ DifficultyIdle
    /\ ProfilerIdle
    /\ AppIdle
    /\ SelectorIdle
    /\ TrackerIdle
    /\ ThreadsIdle
    /\ generation = NoGeneration
    /\ trigger_session = TriggerSession
    /\ delivery = NoDelivery
    /\ sheets_logger = NoLogger
    /\ performance_log = << >>
    /\ personalized_groq_generator = FALSE
    /\ tag_picks = << >>
    /\ triggers_dataset = RecencyDataset
    /\ processed_triggers = _preprocess_triggers(triggers_dataset)

SelectRecorded ==
    /\ Selections(popup_selector) < MaxSelections
    /\ \E vector \in PopupVectors, category \in PopupCategories,
          required_type \in { "", "option_based" } :
          \E s \in select_popup(popup_selector, vector, category, processed_triggers,
                                required_type, clock) :
              /\ popup_selector' = s.selector
              /\ selection' = [ vector |-> vector, category |-> category,
                                required_type |-> required_type, popup |-> s.popup ]
              /\ selection_log' =
                    IF s.popup = NoPopup THEN selection_log
                    ELSE Append(selection_log,
                                [ text |-> s.popup.text, category |-> category,
                                  time |-> clock ])
    /\ UNCHANGED << tag_weights, appVars, meterVars, difficultyVars, profilerVars,
                    trackerVars, threads, ended_sessions, serviceVars >>

NextRecency == SelectRecorded \/ Tick

SpecRecency == InitRecency /\ [][NextRecency]_vars

(***************************************************************************)
(* SpecSessions: the session map under requests that start sessions, name  *)
(* session ids (live, ended or never issued) and end sessions, all within  *)
(* one second of the clock                                                 *)
(***************************************************************************)
MaxLive == 2

\* random.randint(1000, 9999), cut to two values
Suffixes == { 1000, 1001 }

\* the ids a request can name: those start_session can issue, and more
RequestIds ==
    { SessionId("u1", 0, suffix) : suffix \in Suffixes \cup { 9999 } }

SessionAnswers ==
    { << >>,
      << [ question_id |-> 1, option_index |-> 0 ] >>,
      << [ question_id |-> 1, option_index |-> 0 ],
         [ question_id |-> 2, option_index |-> 1 ] >> }

SessionRequests ==
    { [ trigger_text |-> "T1", trigger_type |-> "sarcasm", category |-> "fear",
        trigger_value |-> 10, time_taken |-> 500, selected_option |-> None,
        main_question_correct |-> FALSE, main_question_time |-> 500 ] }

InitSessions ==
    /\ MeterIdle
    /\ DifficultyIdle
    /\ SelectorIdle
    /\ TrackerIdle
    /\ ThreadsIdle
    /\ ServicesIdle
    /\ questions = << 1, 2 >>
    /\ quiz_responses = << >>
    /\ result = NoResult
    /\ user_sessions = [ id \in {} |-> UserSession("") ]
    /\ reply = Reply("none", NoSessionId, 0)
    /\ clock = 0

SessionFrame ==
    UNCHANGED << clock, selectorVars, trackerVars, threads, serviceVars, meterVars,
                 difficultyVars >>

KeepsEnded == UNCHANGED ended_sessions

StartSession ==
    /\ KeepsEnded
    /\ Cardinality(DOMAIN user_sessions) < MaxLive
    /\ \E user_id \in { "u1", "" } :
          \E session_id \in _create_new_session(user_id, Suffixes, clock) :
              start_session(user_id, session_id)
    /\ SessionFrame
    /\ UNCHANGED profilerVars

GetSessionSnapshot ==
    /\ KeepsEnded
    /\ \E session_id \in RequestIds : get_session_snapshot(session_id)
    /\ SessionFrame
    /\ UNCHANGED profilerVars

SubmitAssessment ==
    /\ KeepsEnded
    /\ \E session_id \in RequestIds, responses \in SessionAnswers :
          /\ quiz_responses' = responses
          /\ submit_personality_assessment(session_id, responses)
    /\ SessionFrame
    /\ UNCHANGED questions

SubmitResponse ==
    /\ KeepsEnded
    /\ \E session_id \in RequestIds, request \in SessionRequests :
          /\ session_id \in DOMAIN user_sessions
                => user_sessions[session_id].responses < 1
          /\ submit_response(session_id, request, "ok")
    /\ SessionFrame
    /\ UNCHANGED profilerVars

EndSession ==
    /\ \E session_id \in RequestIds :
          /\ end_session(session_id)
          /\ ended_sessions' = IF session_id \in DOMAIN user_sessions
                               THEN ended_sessions \cup {session_id}
                               ELSE ended_sessions
    /\ SessionFrame
    /\ UNCHANGED profilerVars

NextSessions ==
    \/ StartSession
    \/ GetSessionSnapshot
    \/ SubmitAssessment
    \/ SubmitResponse
    \/ EndSession

SpecSessions == InitSessions /\ [][NextSessions]_vars

(***************************************************************************)
(* SpecUpdate: process_trigger_response on one drawn response, for drawn   *)
(* meter values, a text shown never or once before, and any category       *)
(***************************************************************************)
UpdateResponses ==
    [ trigger_text : {"T1"},
      trigger_type : {"option_based", "sarcasm", "motivation"},
      category : {"fear", "thoughts", "frustration", "other"},
      trigger_value : {0 - 10, 15, 20},
      time_taken : {200, 300, 500},
      selected_option : {None, 0, 1, 2, 3},
      main_question_correct : BOOLEAN,
      main_question_time : {200, 300, 500},
      repeat_count : 0..1 ]

UpdateMeters ==
    { ZeroMeters,
      [ fear_meter |-> 450, thought_meter |-> MAX_METER, frustration_meter |-> 200 ],
      [ fear_meter |-> 200, thought_meter |-> 450, frustration_meter |-> MAX_METER ],
      [ fear_meter |-> MAX_METER, thought_meter |-> 200, frustration_meter |-> 450 ] }

InitUpdate ==
    /\ calibration = DefaultCalibration
    /\ meter_state \in UpdateMeters
    /\ response \in UpdateResponses
    /\ trigger_history =
          IF response.repeat_count = 0 THEN EmptyHistory
          ELSE [ t \in {response.trigger_text} |-> response.repeat_count ]
    /\ updates = NoUpdates
    /\ budget = 1
    /\ DifficultyIdle
    /\ ProfilerIdle
    /\ ExtIdle

ProcessDrawn ==
    /\ budget > 0
    /\ process_trigger_response(response)
    /\ budget' = budget - 1
    /\ UNCHANGED << difficultyVars, profilerVars, extVars >>

NextUpdate == ProcessDrawn

SpecUpdate == InitUpdate /\ [][NextUpdate]_vars

(***************************************************************************)
(* SpecGeneration: validate_generation on a drawn popup and tag list       *)
(***************************************************************************)
GeneratedValues ==
    { NoValue,
      [ kind |-> "number", number |-> 8 ],
      [ kind |-> "string", number |-> 0 ],
      [ kind |-> "null", number |-> 0 ] }

Generations ==
    [ text : { "", "Stay Calm", "Go on" },
      type : { "motivation", "option_based", "quiz" },
      options : { << >>, << "a", "b", "c" >> },
      value : GeneratedValues,
      category : { "" } ]

SelectedTags == { {}, { "needs_calm" }, { "humor" }, { "humor", "needs_calm" } }

InitGeneration ==
    /\ MeterIdle
    /\ DifficultyIdle
    /\ ProfilerIdle
    /\ AppIdle
    /\ SelectorIdle
    /\ TrackerIdle
    /\ ThreadsIdle
    /\ trigger_session = TriggerSession
    /\ delivery = NoDelivery
    /\ sheets_logger = NoLogger
    /\ performance_log = << >>
    /\ personalized_groq_generator = TRUE
    /\ tag_picks = << >>
    /\ triggers_dataset = NoDataset
    /\ processed_triggers = NoDataset
    /\ \E popup \in Generations, selected_tags \in SelectedTags :
          generation = [ popup |-> popup, selected_tags |-> selected_tags,
                         valid |-> FALSE, reason |-> "" ]

ValidateGeneration ==
    /\ generation.reason = ""
    /\ LET checked == validate_generation(generation.popup, generation.selected_tags,
                                          "fear")
       IN  generation' = [ generation EXCEPT !.popup = checked.popup,
                                             !.valid = checked.valid,
                                             !.reason = checked.reason ]
    /\ UNCHANGED << trigger_session, delivery, sheets_logger, performance_log,
                    personalized_groq_generator, tag_picks, datasetVars, appVars, selectorVars, trackerVars,
                    threads, ended_sessions, meterVars, difficultyVars, profilerVars >>

NextGeneration == ValidateGeneration

SpecGeneration == InitGeneration /\ [][NextGeneration]_vars

(***************************************************************************)
(* SpecPreprocess: _preprocess_triggers on a drawn dataset with two popups *)
(* of an enriched category and one of a category without base tags         *)
(***************************************************************************)
RawTagLists ==
    { << >>, << "needs_calm" >>, << "Anxious" >>, << "humor" >>,
      << "humor", "" >>, << "needs_calm", "composed" >> }

RawPopup(text, type) ==
    [ text : { text }, type : { type }, value : { 10 },
      personality_tags : { << >>, << "composed" >> },
      tags : RawTagLists ]

Datasets ==
    [ fear : { << p, q >> : p \in RawPopup("t1", "sarcasm"),
                           q \in RawPopup("t2", "option_based") },
      calm : { << p >> : p \in RawPopup("t5", "motivation") } ]

InitPreprocess ==
    /\ MeterIdle
    /\ DifficultyIdle
    /\ ProfilerIdle
    /\ AppIdle
    /\ SelectorIdle
    /\ TrackerIdle
    /\ ThreadsIdle
    /\ generation = NoGeneration
    /\ trigger_session = TriggerSession
    /\ delivery = NoDelivery
    /\ sheets_logger = NoLogger
    /\ performance_log = << >>
    /\ personalized_groq_generator = FALSE
    /\ tag_picks = << >>
    /\ triggers_dataset \in Datasets
    /\ processed_triggers = NoDataset

PreprocessTriggers ==
    /\ processed_triggers = NoDataset
    /\ processed_triggers' = _preprocess_triggers(triggers_dataset)
    /\ UNCHANGED << triggers_dataset, generation, trigger_session, delivery,
                    sheets_logger, performance_log, personalized_groq_generator,
                    tag_picks, appVars, selectorVars, trackerVars, threads,
                    ended_sessions, meterVars, difficultyVars, profilerVars >>

NextPreprocess == PreprocessTriggers

SpecPreprocess == InitPreprocess /\ [][NextPreprocess]_vars

(***************************************************************************)
(* Properties of the meter engine                                          *)
(***************************************************************************)
MeterValues ==
    { meter_state.fear_meter, meter_state.thought_meter, meter_state.frustration_meter }

Processed == response # NoResponse

\* the impact the same response has when its text was never shown
FirstOccurrenceImpact == FinalImpact(calibration, EmptyHistory, response)

\* C1: after process_trigger_response, for any response and any history,
\* every meter lies in [0,1], after any sequence of responses.
C1_MetersInRange ==
    \A m \in MeterValues : MIN_METER <= m /\ m <= MAX_METER

\* a second response whose impact alone exceeds 1.0 left the fear meter at 1.0
C1_Witness ==
    /\ budget = 0
    /\ updates.fear > ImpactOne
    /\ meter_state.fear_meter = MAX_METER
    /\ meter_state.thought_meter > MIN_METER
    /\ meter_state.thought_meter < MAX_METER

\* one zero-impact step: no meter grows or goes negative, and each new meter
\* is 0.95 times the old one to within one thousandth
DecayStep(old, new) ==
    /\ new <= old
    /\ new >= MIN_METER
    /\ MAX_METER * new <= DECAY_FACTOR * old
    /\ DECAY_FACTOR * old < MAX_METER * (new + 1)

\* C2: under repeated zero-impact updates every meter is non-increasing at
\* each step, never negative, multiplied by 0.95 per step, and the meters
\* converge to 0.
C2_DecayOnly ==
    /\ [][ ZeroImpact(updates') =>
             /\ DecayStep(meter_state.fear_meter, meter_state'.fear_meter)
             /\ DecayStep(meter_state.thought_meter, meter_state'.thought_meter)
             /\ DecayStep(meter_state.frustration_meter, meter_state'.frustration_meter) ]_vars
    /\ <>[](meter_state = ZeroMeters)

\* two zero-impact updates took the fear meter from 1.0 to 0.902 and the
\* thought meter from 0.45 to 0.405
C2_Witness ==
    /\ Processed
    /\ ZeroImpact(updates)
    /\ meter_state.fear_meter = 902
    /\ meter_state.thought_meter = 405

C4_HabituationFloor ==
    (budget = 0 /\ response.selected_option # 0 /\ response.repeat_count >= 1)
        => updates.final_impact >= FirstOccurrenceImpact \div 10

\* at the 23rd showing 0.9^22 is below 0.1 and the floor decides the impact
C4_Witness ==
    /\ budget = 0
    /\ response.selected_option # 0
    /\ response.repeat_count = 22
    /\ habituation_factor(response.repeat_count) < HABITUATION_FLOOR
    /\ FirstOccurrenceImpact > 0
    /\ updates.final_impact = FirstOccurrenceImpact \div 10

(***************************************************************************)
(* Properties of the difficulty controller                                 *)
(***************************************************************************)
WindowLen == Len(performance_window)
WindowCorrect == correct_count(performance_window)
WindowSum == SumTimes(performance_window, WindowLen)
Adjustment == get_difficulty_adjustment(performance_window)

\* at least 3 samples, at least 3 correct, average time < 3.5
IncreaseRule ==
    WindowLen >= 3 /\ WindowCorrect >= 3 /\ WindowSum < 350 * WindowLen

\* at least 2 samples, at most 1 correct or average time > 5.0
DecreaseRule ==
    WindowLen >= 2 /\ (WindowCorrect <= 1 \/ WindowSum > 500 * WindowLen)

\* C5: whenever the increase rule fires the multiplier is 1.15 if every entry
\* of the window is correct (a window of 3 as well as of 4) and 1.10 otherwise.
C5_UnanimousIncrease ==
    IncreaseRule =>
        Adjustment = (IF WindowCorrect = WindowLen THEN 115 ELSE 110)

\* C6: a window of exactly two entries with at least one correct and average
\* time <= 5.0 (e.g. one correct, one wrong, average 2.0) yields 1.0.
C6_TwoEntriesStable ==
    (WindowLen = 2 /\ WindowCorrect >= 1 /\ WindowSum <= 500 * WindowLen)
        => Adjustment = 100

\* C6 as amended: such a window yields 1.0 only when both entries are
\* correct; with one correct and one wrong the decrease rule, which needs
\* only 2 samples, fires and the multiplier is 0.90.
C6_TwoEntriesAmended ==
    (WindowLen = 2 /\ WindowCorrect >= 1 /\ WindowSum <= 500 * WindowLen)
        => Adjustment = (IF WindowCorrect = 2 THEN 100 ELSE 90)

\* the window [True, False] with average time 2.0 was evaluated to 0.90
C6_Witness ==
    /\ WindowLen = 2
    /\ performance_window[1].correct
    /\ ~performance_window[2].correct
    /\ WindowSum = 200 * WindowLen
    /\ current_difficulty = Adjustment
    /\ current_difficulty = 90

\* C7: when the increase rule does not fire, the window has at least 2
\* samples and at most 1 entry is correct or the average time is > 5.0, the
\* multiplier is 0.80 if no entry is correct and 0.90 otherwise; with fewer
\* than 2 samples the decrease rule never fires.
C7_DecreaseRule ==
    /\ (~IncreaseRule /\ DecreaseRule)
          => Adjustment = (IF WindowCorrect = 0 THEN 80 ELSE 90)
    /\ WindowLen < 2
          => (~should_decrease_difficulty(performance_window) /\ Adjustment = 100)

\* a full window without a correct entry was evaluated to 0.80
C7_Witness ==
    /\ WindowLen = WINDOW_SIZE
    /\ WindowCorrect = 0
    /\ current_difficulty = Adjustment
    /\ current_difficulty = 80

\* C8: the increase and the decrease condition are never both true, the
\* increase rule decides when it holds, the multiplier is 1.0 when neither
\* holds, and the multiplier is always one of 0.80, 0.90, 1.0, 1.10, 1.15.
C8_OneRule ==
    /\ ~(should_increase_difficulty(performance_window)
           /\ should_decrease_difficulty(performance_window))
    /\ should_increase_difficulty(performance_window) => Adjustment \in {110, 115}
    /\ should_decrease_difficulty(performance_window) => Adjustment \in {80, 90}
    /\ (~should_increase_difficulty(performance_window)
           /\ ~should_decrease_difficulty(performance_window)) => Adjustment = 100
    /\ Adjustment \in {80, 90, 100, 110, 115}
    /\ current_difficulty \in {80, 90, 100, 110, 115}

\* a full window with three correct entries but an average time between 3.5
\* and 5.0 (neither rule applies) was evaluated to 1.0
C8_Witness ==
    /\ WindowLen = WINDOW_SIZE
    /\ WindowCorrect = 3
    /\ WindowSum >= 350 * WindowLen
    /\ WindowSum <= 500 * WindowLen
    /\ current_difficulty = Adjustment
    /\ current_difficulty = 100

(***************************************************************************)
(* Properties of the profiler                                              *)
(***************************************************************************)
Analyzed == result.raised = "none"

\* answer i is one that adds to dimension d: its question is in the quiz,
\* its option index names an option, and the question scores d
Contributing(i, d) ==
    LET r == quiz_responses[i]
    IN  \E k \in 1..Len(questions) :
            /\ Question(questions, k).id = r.question_id
            /\ r.option_index \in 0..(Len(Question(questions, k).options) - 1)
            /\ d \in QuestionDims(Question(questions, k))

\* raw score of contributing answer i on d (0.5 when the chosen option has none)
RawScore(i, d) ==
    LET r == quiz_responses[i]
        question == Question(questions, FindQuestion(questions, r.question_id))
        scores == question.options[r.option_index + 1].scores
    IN  IF d \in DOMAIN scores THEN scores[d] ELSE DEFAULT_RAW_SCORE

\* 1/|dimensions of the question of answer i|, in sixtieths
SplitWeight(i) ==
    LET r == quiz_responses[i]
        question == Question(questions, FindQuestion(questions, r.question_id))
    IN  60 \div Cardinality(QuestionDims(question))

RECURSIVE SumOver(_, _, _)
\* sum over the contributing answers 1..n of weight (times raw score)
SumOver(n, d, scored) ==
    IF n = 0 THEN 0
    ELSE SumOver(n - 1, d, scored)
           + (IF Contributing(n, d)
              THEN SplitWeight(n) * (IF scored THEN RawScore(n, d) ELSE 1)
              ELSE 0)

\* every raw score entering the vector is s
UniformScore(s) ==
    \A i \in 1..Len(quiz_responses), d \in Dimensions :
        Contributing(i, d) => RawScore(i, d) = s

AllDimensionsContributed ==
    \A d \in Dimensions : \E i \in 1..Len(quiz_responses) : Contributing(i, d)

C10_ValidNeedsContribution ==
    (Analyzed /\ result.valid) =>
        \A d \in Dimensions :
            result.weight_check.expected[d] > 0
                => \E i \in 1..Len(quiz_responses) : Contributing(i, d)

(***************************************************************************)
(* Properties of the personality submit route                              *)
(***************************************************************************)
\* C11: a submission for a known session whose number of responses differs
\* from the quiz length is answered 400, analyze_responses (when the list is
\* not empty) raises ValueError and returns nothing, and neither the
\* assessor's questions nor any session (personality_completed, vector,
\* session manager) changes.
C11_WrongCountRejected ==
    [][ (reply'.session_id \in DOMAIN user_sessions
            /\ Len(quiz_responses') # total_questions)
          => /\ reply'.status = 400
             /\ user_sessions' = user_sessions
             /\ questions' = questions
             /\ quiz_responses' # << >>
                   => /\ result'.raised = "ValueError"
                      /\ result'.personality_vector = << >> ]_vars

\* a session that completed its assessment was sent one response too many:
\* the answer is 400 and the session keeps its flag and its vector
C11_Witness ==
    /\ reply = Reply("submit_personality_assessment", "s1", 400)
    /\ Len(quiz_responses) = total_questions + 1
    /\ result.raised = "ValueError"
    /\ user_sessions["s1"].personality_completed
    /\ Len(user_sessions["s1"].personality_responses) = total_questions
    /\ user_sessions["s1"].personality_vector # EmptyVector

(***************************************************************************)
(* Properties of the popup selection cascade                               *)
(***************************************************************************)
\* a step of select_popup that returned a popup
Selected == popup_selector' # popup_selector

\* the popups of the category named in the call
CategoryPopups ==
    IF selection'.category \in DOMAIN TriggerPopups
    THEN SeqToSet(TriggerPopups[selection'.category]) ELSE {}

\* the tag set derived from the (personality_vector, category) of the call
DerivedTags == get_tags_from_personality(selection'.vector, selection'.category)

SelectedWithin(popup, minutes) ==
    /\ popup_id(popup) \in DOMAIN popup_selector.last_selected
    /\ clock - popup_selector.last_selected[popup_id(popup)] <= minutes

\* the pool the cascade works on: the popups of the category and of the
\* required type that were not selected within the last 30 minutes, or all
\* those of the required type when every one of them was
AvailablePopups ==
    LET typed == { popup \in CategoryPopups :
                     selection'.required_type \in { "", popup.type } }
        fresh == { popup \in typed : ~SelectedWithin(popup, 30) }
    IN  IF fresh = {} THEN typed ELSE fresh

Weighted == DOMAIN tag_weights.weights = tag_weights.candidate_tags

Relevance(tag) == _get_personality_weight(tag, tag_weights.vector)

UsesOf(tag) == TagUses(popup_selector.trait_weighting, tag)

\* the weight of a candidate tag before normalization
RawWeight(tag) ==
    tag_weight(popup_selector.trait_weighting, tag, tag_weights.vector, clock)

\* the tag was used exactly n times, all within the last given minutes
UsedWithin(tag, n, minutes) ==
    /\ Len(UsesOf(tag)) = n
    /\ \A i \in 1..n : clock - UsesOf(tag)[i] <= minutes

\* C13: of two candidate tags of equal personality relevance, one never
\* used and one used 5 times within the last 5 minutes, the unused one has
\* the greater or equal weight, before and after normalization.
C13_UnusedTagPreferred ==
    Weighted =>
        \A a, b \in tag_weights.candidate_tags :
            (Relevance(a) = Relevance(b) /\ UsedWithin(a, 0, 5) /\ UsedWithin(b, 5, 5))
                => /\ RawWeight(a) >= RawWeight(b)
                   /\ tag_weights.weights[a] >= tag_weights.weights[b]

\* anxious_response (never used) and needs_calm (used 5 times in the last 5
\* minutes) have relevance 0.9 for a student of stress sensitivity 0.8; the
\* normalized weights are 0.807 and 0.192
C13_Witness ==
    /\ Weighted
    /\ tag_weights.candidate_tags = { "anxious_response", "needs_calm" }
    /\ Relevance("anxious_response") = 90
    /\ Relevance("needs_calm") = 90
    /\ UsedWithin("anxious_response", 0, 5)
    /\ UsedWithin("needs_calm", 5, 5)
    /\ tag_weights.weights["anxious_response"] = 807
    /\ tag_weights.weights["needs_calm"] = 192

(***************************************************************************)
(* Properties of one meter update                                          *)
(***************************************************************************)
\* the meter a category names
MeterOf(category) ==
    CASE category = "fear" -> "fear_meter"
      [] category = "thoughts" -> "thought_meter"
      [] category = "frustration" -> "frustration_meter"
      [] OTHER -> "none"

MeterNames == { "fear_meter", "thought_meter", "frustration_meter" }

\* old * 0.95, in thousandths
Decayed(old) == (old * 19) \div 20

Clamp01(x) == IF x < 0 THEN 0 ELSE IF x > 1000 THEN 1000 ELSE x

\* m_type of the claim, in twentieths
TypeMultiplier(r) ==
    LET reaction == categorize_response_time(calibration, r.time_taken)
    IN  CASE r.trigger_type = "option_based" ->
               (CASE r.selected_option = 0 -> 18
                  [] r.selected_option = 1 -> 5
                  [] r.selected_option = 2 -> 10
                  [] OTHER -> 10)
          [] r.trigger_type = "sarcasm" ->
               (CASE reaction = "slow" /\ ~r.main_question_correct -> 20
                  [] reaction = "slow" /\ r.main_question_correct -> 12
                  [] reaction # "slow" /\ r.main_question_correct -> 2
                  [] OTHER -> 7)
          [] r.trigger_type = "motivation" -> 20

\* m_context of the claim, in twentieths
ContextMultiplier(r) ==
    LET pace == categorize_response_time(calibration, r.main_question_time)
    IN  CASE r.main_question_correct /\ pace = "quick" -> 17
          [] r.main_question_correct /\ pace = "moderate" -> 20
          [] r.main_question_correct /\ pace = "slow" -> 20
          [] ~r.main_question_correct /\ pace = "quick" -> 22
          [] ~r.main_question_correct /\ pace = "moderate" -> 23
          [] ~r.main_question_correct /\ pace = "slow" -> 24

\* value * m_type * m_context (in 1/8000), rounded to thousandths
FirstImpact(r) ==
    (r.trigger_value * TypeMultiplier(r) * ContextMultiplier(r) + 4) \div 8

\* C14: for a first-occurrence trigger the new value of the category's meter
\* is clamp(old * 0.95 + value * m_type * m_context), with m_type and
\* m_context as tabulated.
C14_FirstOccurrenceFormula ==
    [][ (trigger_history = EmptyHistory /\ MeterOf(response'.category) # "none")
          => meter_state'[MeterOf(response'.category)] =
               Clamp01(Decayed(meter_state[MeterOf(response'.category)])
                         + FirstImpact(response')) ]_vars

\* sarcasm of value 0.75, slow reaction, main question correct and slow,
\* category fear, all meters 0 before: fear is 0.45, the others stay 0
C14_Witness ==
    /\ budget = 0
    /\ response.trigger_type = "sarcasm"
    /\ response.trigger_value = 15
    /\ response.category = "fear"
    /\ response.repeat_count = 0
    /\ categorize_response_time(calibration, response.time_taken) = "slow"
    /\ response.main_question_correct
    /\ categorize_response_time(calibration, response.main_question_time) = "slow"
    /\ meter_state = [ fear_meter |-> 450, thought_meter |-> 0, frustration_meter |-> 0 ]

\* the final impact, rounded to thousandths
RoundedImpact(impact) == (impact + ImpactOne \div 2000) \div (ImpactOne \div 1000)

\* C15: the final impact is added only to the meter of the response's
\* category; every other meter becomes old * 0.95 (clamped), and a response
\* of a category other than fear, thoughts, frustration adds to no meter.
C15_OnlyCategoryMeter ==
    [][ budget' < budget
          => \A m \in MeterNames :
                meter_state'[m] =
                    Clamp01(Decayed(meter_state[m])
                              + (IF m = MeterOf(response'.category)
                                 THEN RoundedImpact(updates'.final_impact)
                                 ELSE 0)) ]_vars

\* a response of an unknown category with a positive final impact left the
\* meters 0.45, 1.0, 0.2 at 0.427, 0.95, 0.19
C15_Witness ==
    /\ budget = 0
    /\ response.category = "other"
    /\ updates.final_impact > 0
    /\ meter_state = [ fear_meter |-> 427, thought_meter |-> 950, frustration_meter |-> 190 ]

(***************************************************************************)
(* Properties of the selection cascade                                     *)
(***************************************************************************)
\* the match set of each level over the available pool
Level1Matches == { p \in AvailablePopups : p.tags \cap DerivedTags # {} }

DominantOverlap(p) ==
    Cardinality(p.tags \cap get_dominant_traits_tags(selection'.vector, 5))

Level2Matches ==
    { p \in AvailablePopups :
        /\ DominantOverlap(p) > 0
        /\ \A q \in AvailablePopups : DominantOverlap(q) <= DominantOverlap(p) }

Level3Matches ==
    { p \in AvailablePopups :
        /\ selection'.category \in DOMAIN CATEGORY_TAG_ENRICHMENT
        /\ p.tags \cap CATEGORY_TAG_ENRICHMENT[selection'.category].base_tags # {} }

Level4Matches ==
    { p \in AvailablePopups :
        p.tags \cap { "needs_encouragement", "supportive", "compassionate",
                      "confidence_building" } # {} }

FirstYieldingLevel ==
    IF Level1Matches # {} THEN Level1Matches
    ELSE IF Level2Matches # {} THEN Level2Matches
    ELSE IF Level3Matches # {} THEN Level3Matches
    ELSE IF Level4Matches # {} THEN Level4Matches
    ELSE AvailablePopups

\* C16: select_popup tries the five levels in order over the same available
\* pool; the popup returned belongs to the match set of the first level
\* whose match set is not empty, never to a later level's only.
C16_FirstLevelWins ==
    [][ (Selected /\ AvailablePopups # {})
          => selection'.popup \in FirstYieldingLevel ]_vars

\* the first selection, for a student without a vector in a category
\* without tag enrichment: levels 1 to 3 match nothing, and the popup
\* carrying a safe tag was returned, not the other one
C16_Witness ==
    /\ Selections(popup_selector) = 1
    /\ selection.category = "calm"
    /\ selection.vector = EmptyVector
    /\ get_tags_from_personality(EmptyVector, "calm") = {}
    /\ selection.popup.text = "t5"

(***************************************************************************)
(* Properties of the personality tracker                                   *)
(***************************************************************************)
Called == session_manager' # session_manager

\* the counter has reached 10, or more than 10 minutes have elapsed since
\* the last recompute
RecomputeDue ==
    \/ session_manager.popup_count_since_update + 1 >= 10
    \/ /\ session_manager.trait_last_updated # None
       /\ clock - session_manager.trait_last_updated > 10

\* C17: each call of update_personality_from_performance appends one record
\* and counts it; exactly when the counter has reached 10 or more than 10
\* minutes have elapsed since the last recompute, the call recomputes and
\* resets the counter to 0 and the last-update time to now; otherwise the
\* vector and the last-update time stay; after any call the counter is
\* below 10.
C17_RecomputeSchedule ==
    [][ Called =>
          /\ Len(session_manager'.performance_history)
                = Len(session_manager.performance_history) + 1
          /\ SubSeq(session_manager'.performance_history, 1,
                    Len(session_manager.performance_history))
                = session_manager.performance_history
          /\ IF RecomputeDue
             THEN /\ session_manager'.popup_count_since_update = 0
                  /\ session_manager'.trait_last_updated = clock
             ELSE /\ session_manager'.popup_count_since_update
                        = session_manager.popup_count_since_update + 1
                  /\ session_manager'.trait_last_updated
                        = session_manager.trait_last_updated
                  /\ session_manager'.current_personality_vector
                        = session_manager.current_personality_vector
          /\ session_manager'.popup_count_since_update < 10 ]_vars

\* the tenth call within ten minutes of the seeding: the counter is back at
\* 0 and the vector differs from the seeded one
C17_Witness ==
    /\ Len(session_manager.performance_history) = 10
    /\ clock = 0
    /\ session_manager.popup_count_since_update = 0
    /\ session_manager.initial_assessment # EmptyVector
    /\ session_manager.current_personality_vector # session_manager.initial_assessment

\* C18: every value present in the tracker's personality vector, seeded
\* with the Profiler's output and after any sequence of recomputes, is in
\* [0,1].
C18_VectorInUnitInterval ==
    \A k \in DOMAIN session_manager.current_personality_vector :
        /\ session_manager.current_personality_vector[k] >= 0
        /\ session_manager.current_personality_vector[k] <= 100

\* three recomputes raised a seeded stress_sensitivity of 0.8 to the
\* ceiling, and a dimension the quiz does not score was introduced
C18_Witness ==
    /\ session_manager.initial_assessment # EmptyVector
    /\ VectorGet(session_manager.initial_assessment, "stress_sensitivity") = 80
    /\ VectorGet(session_manager.current_personality_vector, "stress_sensitivity") = 100
    /\ "distraction_resistance" \in DOMAIN session_manager.current_personality_vector

(***************************************************************************)
(* Properties of concurrent submit_response requests                       *)
(***************************************************************************)
Done(w) == threads[w].pc = "done"

\* the meters after adding the impacts of upd to the decayed meters
MetersAfter(meters, upd) ==
    [ fear_meter |-> Clamp01(Decayed(meters.fear_meter) + RoundedImpact(upd.fear)),
      thought_meter |-> Clamp01(Decayed(meters.thought_meter) + RoundedImpact(upd.thoughts)),
      frustration_meter |->
          Clamp01(Decayed(meters.frustration_meter) + RoundedImpact(upd.frustration)) ]

\* the number of finished requests that showed the text
TimesShown(text) ==
    Cardinality({ w \in Workers : Done(w) /\ threads[w].request.trigger_text = text })

\* C19 (serialized half): when one of two requests for a session began
\* after the other was finished, the session reflects both: the meters are
\* the second update applied to the result of the first, both responses
\* are logged, and each text's count is the number of times it was shown.
C19_SerializedBothReflected ==
    \A v, w \in Workers :
        (Done(v) /\ Done(w) /\ v \in threads[w].after)
            => LET session == user_sessions[threads[w].session_id]
               IN  /\ session.meter_state =
                         MetersAfter(MetersAfter(ZeroMeters, threads[v].updates),
                                     threads[w].updates)
                   /\ session.responses = 2
                   /\ \A text \in DOMAIN session.trigger_history :
                         session.trigger_history[text] = TimesShown(text)

\* C19 (interleaved half): two requests showing the same text overlapped;
\* both are finished and answered, the text's count is 1, and the meters
\* are those of one update alone although the other's impact was not zero
C19_Witness ==
    \E v, w \in Workers :
        /\ v # w
        /\ Done(v) /\ Done(w)
        /\ threads[v].after = {} /\ threads[w].after = {}
        /\ threads[v].request.trigger_text = threads[w].request.trigger_text
        /\ threads[v].updates.final_impact # 0
        /\ LET session == user_sessions[threads[w].session_id]
           IN  /\ session.trigger_history[threads[w].request.trigger_text] = 1
               /\ session.meter_state = MetersAfter(ZeroMeters, threads[w].updates)
               /\ session.meter_state
                     # MetersAfter(MetersAfter(ZeroMeters, threads[v].updates),
                                   threads[w].updates)

(***************************************************************************)
(* Properties of the session map                                           *)
(***************************************************************************)
\* the request just answered named session_id (start_session names none)
Answered(session_id) ==
    /\ reply'.session_id = session_id
    /\ reply'.route \notin { "none", "start_session" }
    /\ << reply, user_sessions, result, quiz_responses >>
          # << reply', user_sessions', result', quiz_responses' >>

\* a request naming an id that is not in the map is answered not-found and
\* changes no session; start_session registers the new session under an id
\* that is not in the map and leaves the others; end_session removes its id
\* and nothing else
SessionMapSteps ==
    [][ /\ \A session_id \in RequestIds :
              (Answered(session_id) /\ session_id \notin DOMAIN user_sessions)
                  => (reply'.status = 404 /\ user_sessions' = user_sessions)
        /\ (reply'.route = "start_session" /\ reply'.status = 200
               /\ user_sessions' # user_sessions)
              => /\ reply'.session_id \notin DOMAIN user_sessions
                 /\ DOMAIN user_sessions' = DOMAIN user_sessions \cup {reply'.session_id}
                 /\ \A id \in DOMAIN user_sessions : user_sessions'[id] = user_sessions[id]
        /\ (reply'.route = "end_session" /\ reply'.status = 200
               /\ user_sessions' # user_sessions)
              => /\ DOMAIN user_sessions' = DOMAIN user_sessions \ {reply'.session_id}
                 /\ \A id \in DOMAIN user_sessions' : user_sessions'[id] = user_sessions[id]
      ]_vars

\* C20: a request naming a session id that is not in the session map is
\* answered not-found and changes no session's state; the ids of live
\* sessions are unique; end_session removes the id, and every later request
\* naming an id that end_session has removed is answered not-found.
C20_UnknownSessionNotFound ==
    [][ \A session_id \in RequestIds :
            /\ (Answered(session_id) /\ session_id \notin DOMAIN user_sessions)
                  => (reply'.status = 404 /\ user_sessions' = user_sessions)
            /\ (Answered(session_id) /\ session_id \in ended_sessions)
                  => reply'.status = 404
      ]_vars

(***************************************************************************)
(* Claims about the generation service and the trigger sources             *)
(***************************************************************************)
\* the generation was validated and accepted
Accepted == generation.reason # "" /\ generation.valid

\* the four conditions of an acceptable generation
CarriesNumber(popup) == popup.value.kind = "number"

NamesKeyword(popup, selected_tags) ==
    \E keyword \in Keywords(selected_tags) :
        Contains(lower(Spelling(popup.text)), keyword)

\* what validate_generation does enforce: text, type, a value that is a
\* number when the field is present, and a keyword when there are keywords
AcceptedAsCoded ==
    Accepted <=>
        /\ generation.reason # ""
        /\ generation.popup.text # ""
        /\ generation.popup.type \in GENERATED_TYPES
        /\ generation.popup.value.kind \in { "absent", "number" }
        /\ \/ Keywords(generation.selected_tags) = {}
           \/ NamesKeyword(generation.popup, generation.selected_tags)

\* C22: a generated popup is accepted only if its text is non-empty, its
\* type is motivation, sarcasm or option_based, it carries a numeric value
\* and its text contains at least one personalization keyword; a generation
\* with no value field, or one validated with no keywords, is discarded.
C22_AcceptedOnlyIfWellFormed ==
    Accepted =>
        /\ generation.popup.text # ""
        /\ generation.popup.type \in GENERATED_TYPES
        /\ CarriesNumber(generation.popup)
        /\ NamesKeyword(generation.popup, generation.selected_tags)

(***************************************************************************)
(* Claims about the difficulty window                                      *)
(***************************************************************************)
\* C26: after n add_performance calls the difficulty window holds exactly
\* the most recent min(n, 4) (correct, time) pairs in arrival order; its
\* length never exceeds 4 and the oldest pair is the one dropped.
C26_WindowIsRecentArrivals ==
    LET n == Len(performance_log)
        k == Min(n, WINDOW_SIZE)
    IN  /\ Len(performance_window) = k
        /\ Len(performance_window) <= 4
        /\ \A i \in 1..k : performance_window[i] = performance_log[n - k + i]

\* a fifth pair has arrived and pushed out a first pair that differs from
\* every pair kept
C26_Witness ==
    /\ Len(performance_log) = WINDOW_SIZE + 1
    /\ performance_window = SubSeq(performance_log, 2, WINDOW_SIZE + 1)
    /\ \A i \in 1..Len(performance_window) : performance_window[i] # performance_log[1]

(***************************************************************************)
(* Claims about the repeat modifier and the trigger history                *)
(***************************************************************************)
\* the history the drawn response of SpecImpact was applied to
ShownBefore ==
    IF response.repeat_count = 0 THEN EmptyHistory
    ELSE [ t \in {response.trigger_text} |-> response.repeat_count ]

\* the base impact of the drawn response, in the unit of a modified impact
UnmodifiedImpact == BaseImpact(calibration, response) * FACTOR_ONE

\* the value apply_repeat_modifier returned for the drawn response
RepeatModified ==
    apply_repeat_modifier(ShownBefore, response.trigger_text,
                          BaseImpact(calibration, response), previous_negative(response))

\* the habituation half of C27: on the habituation path a repeated trigger
\* of positive base impact has at most its base impact, and at least a
\* tenth of it
HabituationNeverAmplifies ==
    (budget = 0 /\ response.repeat_count >= 1 /\ UnmodifiedImpact > 0
        /\ ~previous_negative(response))
        => /\ RepeatModified <= UnmodifiedImpact
           /\ RepeatModified >= UnmodifiedImpact \div 10

\* C27: for a repeated trigger with a positive base impact, the
\* sensitization path (option 0 selected) yields a modified impact at least
\* the unmodified base impact, and the habituation path one at most the
\* unmodified base impact.
C27_SensitizationAmplifies ==
    (budget = 0 /\ response.repeat_count >= 1 /\ UnmodifiedImpact > 0)
        => IF previous_negative(response)
           THEN RepeatModified >= UnmodifiedImpact
           ELSE RepeatModified <= UnmodifiedImpact

\* C28: whether a repeated text takes the sensitization or the habituation
\* path is decided by the option selected the previous time the text was
\* shown, not by the option of the response being processed.
C28_PreviousOptionDecides ==
    [][ (Processed /\ response' # response
            /\ response'.trigger_text = response.trigger_text)
          => updates'.final_impact =
                 ModifiedImpact(calibration, trigger_history, response',
                                previous_negative(response))
      ]_vars

\* what the engine does: the option of the response being processed decides
CurrentOptionDecides ==
    [][ (response' # response)
          => updates'.final_impact =
                 ModifiedImpact(calibration, trigger_history, response',
                                previous_negative(response'))
      ]_vars


\* the other texts keep their counts, whatever the response carries
OtherTextsKeepCount ==
    [][ (response' # response)
          => \A t \in Texts \ {response'.trigger_text} :
                 HistoryCount(trigger_history', t) = HistoryCount(trigger_history, t)
      ]_vars

\* what the engine records: the count the response carries, plus one
CountFollowsResponse ==
    [][ (response' # response)
          => HistoryCount(trigger_history', response'.trigger_text)
                 = response'.repeat_count + 1
      ]_vars

\* C29: after process_trigger_response on a text T the recorded count of T
\* is its previous count plus 1, whatever category and whatever repeat_count
\* the response carries, and the counts of the other texts are unchanged.
C29_CountGrowsByOne ==
    [][ (response' # response)
          => /\ HistoryCount(trigger_history', response'.trigger_text)
                   = HistoryCount(trigger_history, response'.trigger_text) + 1
             /\ \A t \in Texts \ {response'.trigger_text} :
                    HistoryCount(trigger_history', t) = HistoryCount(trigger_history, t)
      ]_vars

(***************************************************************************)
(* Claims about the tag picks                                              *)
(***************************************************************************)
PicksRecorded == Len(popup_selector.trait_weighting.selected_popups)

RECURSIVE UsesRecorded(_, _)
UsesRecorded(tag_history, tags) ==
    IF tags = {} THEN 0
    ELSE LET tag == CHOOSE t \in tags : TRUE
         IN  Len(tag_history[tag]) + UsesRecorded(tag_history, tags \ {tag})

\* tag_history and selected_popups hold the same picks
HistoriesAgree ==
    PicksRecorded = UsesRecorded(popup_selector.trait_weighting.tag_history,
                                 DOMAIN popup_selector.trait_weighting.tag_history)

\* the pick just made was not a forced one
NormalPick ==
    /\ tag_picks' # tag_picks
    /\ ~should_force_variety(popup_selector.trait_weighting)

\* a pick made while variety is not forced is appended to both histories
NormalPickRecorded ==
    [][ NormalPick =>
          /\ popup_selector'.trait_weighting.selected_popups
                = Append(popup_selector.trait_weighting.selected_popups,
                         [ tag |-> tag_picks'[Len(tag_picks')], timestamp |-> clock ])
          /\ TagUses(popup_selector'.trait_weighting, tag_picks'[Len(tag_picks')])
                = Append(TagUses(popup_selector.trait_weighting,
                                 tag_picks'[Len(tag_picks')]), clock)
      ]_vars

\* C30: every tag pick appends one entry to tag_history and one to
\* selected_popups, on the normal path and on the forced-variety rare-tag
\* path alike, so that the length of the history is the number of picks.
C30_EveryPickRecorded ==
    /\ PicksRecorded = Len(tag_picks)
    /\ \A i \in 1..Len(tag_picks) :
           popup_selector.trait_weighting.selected_popups[i].tag = tag_picks[i]
    /\ HistoriesAgree

(***************************************************************************)
(* Claims about the preprocessed dataset                                   *)
(***************************************************************************)
Preprocessed == processed_triggers # NoDataset

\* the popups of the processed dataset, each with its category and the raw
\* popup it was made from
ProcessedPopups ==
    UNION { { [ category |-> category,
                popup |-> processed_triggers[category][i],
                data |-> triggers_dataset[category][i] ] :
                i \in 1..Len(processed_triggers[category]) } :
            category \in DOMAIN processed_triggers }

\* the popup's own tags, canonicalized
OwnTags(data) ==
    SeqToSet(canonical_tags(IF data.personality_tags # << >>
                            THEN data.personality_tags ELSE data.tags))

\* the tags get_tags_from_personality can derive for the category from
\* some personality vector: level 1 matches on them, and level 2 on the
\* trait tags among them
DerivableTags(category) ==
    TraitTags \cup
        (IF category \in DOMAIN CATEGORY_TAG_ENRICHMENT
         THEN UNION { CATEGORY_TAG_ENRICHMENT[category][key] :
                        key \in DOMAIN CATEGORY_TAG_ENRICHMENT[category] }
         ELSE {})

\* some personality vector makes level 1 or level 2 match the popup
PersonalityMatchable(entry) ==
    entry.popup.tags \cap DerivableTags(entry.category) # {}

\* C25: after dataset preprocessing every popup of every category carries
\* at least 2 tags (its own canonicalized tags, then category base tags,
\* then the generic supportive/encouragement pair), which guarantees that it
\* can be selected by the fuzzy-match level or an earlier one.
C25_EnrichedForFuzzyMatch ==
    Preprocessed =>
        \A entry \in ProcessedPopups :
            /\ Cardinality(entry.popup.tags) >= 2
            /\ PersonalityMatchable(entry)

\* C25 as the code has it: every popup carries at least 2 tags, its own
\* canonicalized tags first, completed from the category base tags and,
\* for a category without base tags, from the generic pair; a popup whose
\* tags match no derivable tag carries supportive, a safe-default tag, and
\* is matched by level 4.
C25_EnrichedTags ==
    Preprocessed =>
        \A entry \in ProcessedPopups :
            /\ Cardinality(entry.popup.tags) >= 2
            /\ OwnTags(entry.data) \subseteq entry.popup.tags
            /\ entry.popup.tags \ OwnTags(entry.data)
                  \subseteq IF base_tags(entry.category) # << >>
                            THEN SeqToSet(base_tags(entry.category))
                            ELSE { "supportive", "encouragement" }
            /\ (Cardinality(OwnTags(entry.data)) >= 2)
                  => entry.popup.tags = OwnTags(entry.data)
            /\ PersonalityMatchable(entry) \/ entry.popup.tags \cap safe_tags # {}

\* a popup without tags in a category without base tags got the generic
\* pair only, and a popup of fear with one own tag got one base tag
C25_Witness ==
    /\ Preprocessed
    /\ processed_triggers["calm"][1].tags = { "supportive", "encouragement" }
    /\ processed_triggers["calm"][1].tags \cap DerivableTags("calm") = {}
    /\ processed_triggers["fear"][1].tags = { "needs_calm", "reassurance" }

(***************************************************************************)
(* Claims about the logging sink                                           *)
(***************************************************************************)
\* a submit_response request was just served
Submitted == reply' # reply \/ user_sessions' # user_sessions \/ response' # response

\* the session as the route leaves it when nothing is logged at all
Recorded(session, r) ==
    LET upd == calculate_update(session, r, r.repeat_count)
        tracked == track_trigger(session, r, r.repeat_count)
        stored == store_meter_state(tracked, session.meter_state, upd)
    IN  record_response(stored, r, clock)

\* C24: a failure of the logging sink during submit_response neither blocks
\* the rest of the pipeline nor affects the session: the session is left in
\* the same state whether the row was logged or not, and the request is
\* answered with the recorded-response result.
C24_LoggingNeverBlocks ==
    [][ Submitted =>
          /\ reply'.status = 200
          /\ user_sessions'["s1"] = Recorded(user_sessions["s1"], response')
          /\ sheets_logger'.rows \in { sheets_logger.rows, sheets_logger.rows + 1 }
      ]_vars

\* the worksheet took the first row and failed on the second; both requests
\* were answered and recorded, and the tracker has both
C24_Witness ==
    /\ sheets_logger.worksheet
    /\ sheets_logger.rows = 1
    /\ sheets_logger.logged = "false"
    /\ reply.status = 200
    /\ user_sessions["s1"].responses = 2
    /\ Len(user_sessions["s1"].session_manager.performance_history) = 2


\* what a call of the generation service came to when it gave no popup
GenerationFailures == { "raises", "nothing", "malformed", "unconfigured" }

\* every call of the generation service made by the last get_next_trigger
\* failed (none was made when the service is not configured)
GenerationFailed(d) ==
    \A i \in 1..Len(d.attempts) : d.attempts[i] \in GenerationFailures

\* the trigger bookkeeping of the session is as it was before the call
BookkeepingKept ==
    /\ trigger_session'.popup_counter = trigger_session.popup_counter
    /\ trigger_session'.triggered_sentences = trigger_session.triggered_sentences
    /\ trigger_session'.trigger_source_counts = trigger_session.trigger_source_counts

\* C21: no call of get_next_trigger lets an exception out; a call for which
\* the generation service gave no popup and the dataset has no popup of the
\* category returns (None, 'none'), and a call that returns (None, 'none')
\* leaves popup_counter, triggered_sentences and trigger_source_counts as
\* they were.
C21_NoTriggerIsAnOutcome ==
    [][ /\ ~delivery'.raised
        /\ ( GenerationFailed(delivery') /\ DatasetPopups(delivery'.label) = << >> )
             => ( delivery'.source = "none" /\ delivery'.trigger = NoTrigger )
        /\ delivery'.source = "none" => BookkeepingKept ]_vars

\* after a delivery, a call for a category without popups found the
\* generation service failing and returned (None, 'none')
C21_Witness ==
    /\ delivery.label = "other"
    /\ delivery.source = "none"
    /\ delivery.attempts # << >>
    /\ "raises" \in SeqToSet(delivery.attempts)
    /\ trigger_session.popup_counter > 0

\* the call delivered a popup of the dataset and counted it as such
DeliveredFromDataset ==
    /\ delivery'.source = "dataset"
    /\ \E i \in 1..Len(DatasetPopups(delivery'.label)) :
          delivery'.trigger.text = DatasetPopups(delivery'.label)[i].text
    /\ trigger_session'.trigger_source_counts.dataset =
          trigger_session.trigger_source_counts.dataset + 1
    /\ trigger_session'.trigger_source_counts.chatgpt =
          trigger_session.trigger_source_counts.chatgpt
    /\ trigger_session'.popup_counter = trigger_session.popup_counter + 1

RecordedTags(weighting) ==
    [ i \in 1..Len(weighting.selected_popups) |-> weighting.selected_popups[i].tag ]

\* the condition of the claim on a list of picks: at least 5 picks whose
\* last 5 hold at most 2 distinct tags, or at least 2 picks with fewer than
\* 0.4 distinct tags per pick
VarietyIsForced(picks) ==
    LET total == Len(picks)
        last_five == { picks[i] : i \in { j \in 1..total : j > total - 5 } }
    IN  \/ total >= 5 /\ Cardinality(last_five) <= 2
        \/ total >= 2 /\ 10 * Cardinality(SeqToSet(picks)) < 4 * total

\* the candidate tags of the pool named by the last call that were used
\* fewer than 2 times before it
RareCandidates ==
    { tag \in PoolTags(VarietyPools[selection'.category]) :
        Len(TagUses(popup_selector.trait_weighting, tag)) < 2 }

C31_Sampled ==
    /\ Len(tag_picks) = 6
    /\ Len(popup_selector.trait_weighting.selected_popups) = 6
    /\ selection.category = "pair"
    /\ Cardinality(SeqToSet(SubSeq(tag_picks, 1, 5))) = 2


(***************************************************************************)
(* Claims about the recency of selections                                  *)
(***************************************************************************)
\* the call just made returned a popup
Returned == selection_log' # selection_log

\* the popups of the category asked for that have the required type
TypedPool ==
    LET popups == DatasetPopups(selection'.category)
    IN  { popups[i] : i \in { j \in 1..Len(popups) :
            selection'.required_type \in { "", popups[j].type } } }

\* the popup (of a category) was returned by an earlier call fewer than
\* `minutes` minutes ago (`minutes` or fewer when inclusive)
ReturnedWithin(text, category, minutes, inclusive) ==
    \E i \in 1..Len(selection_log) :
        /\ selection_log[i].text = text
        /\ selection_log[i].category = category
        /\ \/ clock - selection_log[i].time < minutes
           \/ inclusive /\ clock - selection_log[i].time = minutes

\* every selection stores the time of the call under the popup's id, or
\* under its text when the id is false
SelectionRecorded ==
    [][ Returned =>
          /\ popup_id(selection'.popup) \in DOMAIN popup_selector'.last_selected
          /\ popup_selector'.last_selected[popup_id(selection'.popup)] = clock ]_vars

\* as coded, recency goes by the key stored: a popup whose key was stored
\* 30 minutes ago or less is returned only when the key of every candidate
\* was
KeyStale(popup) ==
    /\ popup_id(popup) \in DOMAIN popup_selector.last_selected
    /\ clock - popup_selector.last_selected[popup_id(popup)] <= duplicate_buffer_minutes

RecencyByKey ==
    [][ ( Returned /\ KeyStale(selection'.popup) )
          => \A popup \in TypedPool : KeyStale(popup) ]_vars

\* C32: every selection made by select_popup records the popup's id (or
\* text) with the selection time, and a popup that select_popup returned
\* less than 30 minutes ago is returned again only when every candidate of
\* the category with the required type was returned within the last 30
\* minutes.
C32_RecentNeverRepeated ==
    [][ Returned =>
          /\ popup_selector'.last_selected[popup_id(selection'.popup)] = clock
          /\ ReturnedWithin(selection'.popup.text, selection'.category,
                            duplicate_buffer_minutes, FALSE)
               => \A popup \in TypedPool :
                      ReturnedWithin(popup.text, selection'.category,
                                     duplicate_buffer_minutes, TRUE) ]_vars


(***************************************************************************)
(* Claims about the recompute of the tracker                               *)
(***************************************************************************)
\* the call just made recomputed the vector
Recomputed ==
    /\ session_manager'.performance_history # session_manager.performance_history
    /\ session_manager'.popup_count_since_update = 0

\* the last 10 records after the call, or all of them when there are fewer
LastTen ==
    LET history == session_manager'.performance_history
    IN  [ i \in 1..Min(10, Len(history)) |-> history[Len(history) - Min(10, Len(history)) + i] ]

CorrectOfLastTen == Cardinality({ i \in 1..Len(LastTen) : LastTen[i].correct })

RECURSIVE TimeOfLastTen(_)
TimeOfLastTen(i) == IF i = 0 THEN 0 ELSE LastTen[i].response_time + TimeOfLastTen(i - 1)

\* the change the claim gives for a dimension, in hundredths (0: none)
ClaimedNudge(dimension) ==
    LET n == Len(LastTen)
        high == 100 * CorrectOfLastTen > 85 * n
        low == 2 * CorrectOfLastTen < n
    IN  IF dimension = "intrinsic_motivation" /\ high THEN 0 - 5
        ELSE IF dimension = "impulsivity" /\ high /\ TimeOfLastTen(n) < 20 * n THEN 8
        ELSE IF dimension = "resilience" /\ low THEN 0 - 5
        ELSE IF dimension = "stress_sensitivity" /\ 10 * CorrectOfLastTen < 3 * n THEN 8
        ELSE IF dimension = "distraction_resistance" /\ n >= 5
                /\ Cardinality({ LastTen[i].category : i \in 1..n }) = 1 THEN 0 - 5
        ELSE 0

\* the cache of dominant traits is the one of the vector after the call
TraitsRefreshed ==
    session_manager'.current_traits
        = get_dominant_traits_tags(session_manager'.current_personality_vector, 5)

\* C33: a recompute changes every dimension by the nudge that the last
\* at-most-10 records give it (intrinsic_motivation -0.05 and impulsivity
\* +0.08 on high accuracy, resilience -0.05 and stress_sensitivity +0.08 on
\* low accuracy, distraction_resistance -0.05 on a single category), changes
\* no other dimension, and refreshes the dominant-trait cache.
C33_RecomputeNudges ==
    [][ Recomputed =>
          /\ \A d \in MappedDimensions :
                VectorGet(session_manager'.current_personality_vector, d)
                   = VectorGet(session_manager.current_personality_vector, d)
                       + ClaimedNudge(d)
          /\ TraitsRefreshed ]_vars

\* C33 as the code has it: with fewer than 3 records in the history a
\* recompute changes no dimension; otherwise every dimension takes the
\* nudge of the last at-most-10 records on its value (0.5 when it has none),
\* kept within 0 and 1; the cache is refreshed in both cases.
C33_RecomputeNudgesClamped ==
    [][ Recomputed =>
          /\ Len(session_manager'.performance_history) < 3
               => session_manager'.current_personality_vector
                     = session_manager.current_personality_vector
          /\ Len(session_manager'.performance_history) >= 3
               => \A d \in MappedDimensions :
                     /\ VectorGet(session_manager'.current_personality_vector, d)
                           = Max(0, Min(100,
                                 VectorGet(session_manager.current_personality_vector, d)
                                    + ClaimedNudge(d)))
                     /\ d \in DOMAIN session_manager'.current_personality_vector
                           <=> \/ d \in DOMAIN session_manager.current_personality_vector
                               \/ ClaimedNudge(d) # 0
          /\ TraitsRefreshed ]_vars

\* a recompute over 12 records: 4 correct answers, then 8 wrong ones, so
\* that the accuracy is 0.2 over the last 10 and 0.33 over all; resilience
\* went from 0.03 to 0 and stress_sensitivity from 0.96 to 1
C33_Witness ==
    /\ Len(session_manager.performance_history) = 12
    /\ session_manager.popup_count_since_update = 0
    /\ \A i \in 1..12 : session_manager.performance_history[i].correct <=> i <= 4
    /\ session_manager.current_personality_vector.resilience = 0
    /\ session_manager.current_personality_vector.stress_sensitivity = 100
    /\ session_manager.current_personality_vector.intrinsic_motivation = 2
    /\ "needs_calm" \in session_manager.current_traits

(***************************************************************************)
(* Claims about the balance of the trigger sources                         *)
(***************************************************************************)
\* the generation service and the dataset can both be asked for the label
BothAvailable(label) ==
    personalized_groq_generator /\ DatasetPopups(label) # << >>

Generated(session) == session.trigger_source_counts.chatgpt

FromDataset(session) == session.trigger_source_counts.dataset

\* the sources the claim lets be tried first in a session
SmallerCount(session) ==
    IF Generated(session) + FromDataset(session) = 0 THEN { "chatgpt" }
    ELSE IF Generated(session) < FromDataset(session) THEN { "chatgpt" }
    ELSE IF FromDataset(session) < Generated(session) THEN { "dataset" }
    ELSE { "chatgpt", "dataset" }

Balanced(session) == Abs(Generated(session) - FromDataset(session)) <= 1

\* C34: in a call of get_next_trigger for which both sources are available,
\* the source order starts with the source of the smaller delivered count
\* (the generation service before any delivery, either source on a tie) and
\* holds both sources; when the call delivers from a source that may be
\* first and the counts differed by 1 at most, they still differ by 1 at
\* most after the delivery.
C34_SmallerCountFirst ==
    [][ BothAvailable(delivery'.label) =>
          /\ \A source_order \in _determine_trigger_source_order(
                                      personalized_groq_generator, trigger_session,
                                      delivery'.label) :
                /\ Len(source_order) = 2
                /\ source_order[1] \in SmallerCount(trigger_session)
                /\ SeqToSet(source_order) = { "chatgpt", "dataset" }
          /\ \A first \in SmallerCount(trigger_session) :
                \E source_order \in _determine_trigger_source_order(
                                        personalized_groq_generator, trigger_session,
                                        delivery'.label) : source_order[1] = first
          /\ ( Balanced(trigger_session)
               /\ delivery'.source \in SmallerCount(trigger_session) )
               => Balanced(trigger_session') ]_vars

\* three deliveries, each from a source that could be first: generated,
\* dataset, dataset
C34_Witness ==
    /\ BothAvailable(delivery.label)
    /\ trigger_session.popup_counter = 3
    /\ Generated(trigger_session) = 1
    /\ FromDataset(trigger_session) = 2
    /\ delivery.source = "dataset"
    /\ delivery.attempts = << >>


(***************************************************************************)
(* Claims about the parity rule                                            *)
(***************************************************************************)
\* the call just made delivered a trigger
TriggerDelivered == delivery'.source # "none"

\* the number of the next popup is even
OptionsDue == (trigger_session.popup_counter + 1) % 2 = 0

\* the dataset holds an option_based popup of the label not yet delivered
DatasetHasOptions ==
    Unused(trigger_session, delivery'.label, TRUE) # {}

\* popup_counter grows by one with every trigger delivered, and only then
CounterCountsDeliveries ==
    [][ trigger_session'.popup_counter
          = trigger_session.popup_counter + ( IF TriggerDelivered THEN 1 ELSE 0 ) ]_vars

\* a dataset trigger delivered while an option_based popup of the dataset
\* was due and at hand is option_based
DatasetKeepsParity ==
    [][ ( TriggerDelivered /\ OptionsDue /\ DatasetHasOptions
          /\ delivery'.source = "dataset" )
          => delivery'.trigger.type = "option_based" ]_vars

\* C35: popup_counter increases by exactly 1 for each delivered trigger;
\* when the number of the next popup is even and a source can supply an
\* option_based trigger for the category (here: the dataset holds one not
\* yet delivered), the trigger delivered is option_based.
C35_ParityRule ==
    [][ /\ trigger_session'.popup_counter
              = trigger_session.popup_counter + ( IF TriggerDelivered THEN 1 ELSE 0 )
        /\ ( TriggerDelivered /\ OptionsDue /\ DatasetHasOptions )
              => delivery'.trigger.type = "option_based" ]_vars


(***************************************************************************)
(* Spec: one session served by the three routes of a question cycle:       *)
(* the personality submission, get_trigger and submit_response             *)
(***************************************************************************)
MaxTriggers == 1

MaxAnswers == 2

RouteLabels == { "fear" }

\* a wrong slow answer and a correct quick one
RouteRequests ==
    { request \in RaceRequests : request.category = "fear" }

InitRoutes ==
    /\ MeterIdle
    /\ DifficultyIdle
    /\ questions \in RouteQuizzes
    /\ quiz_responses = << >>
    /\ result = NoResult
    /\ user_sessions = [ session_id \in {"s1"} |-> UserSession("u1") ]
    /\ reply = NoReply
    /\ clock = 0
    /\ SelectorIdle
    /\ TrackerIdle
    /\ ThreadsIdle
    /\ generation = NoGeneration
    /\ trigger_session = TriggerSession
    /\ delivery = NoDelivery
    /\ sheets_logger = NoLogger
    /\ performance_log = << >>
    /\ personalized_groq_generator = TRUE
    /\ tag_picks = << >>
    /\ triggers_dataset = TriggerDataset
    /\ processed_triggers = _preprocess_triggers(triggers_dataset)

\* POST /api/personality/submit for the session
AssessPersonality ==
    /\ \E responses \in RouteLists :
          submit_personality_assessment("s1", responses)
    /\ UNCHANGED << questions, quiz_responses, clock, meterVars, difficultyVars, selectorVars,
                    trackerVars, threads, ended_sessions, serviceVars >>

\* POST /api/get-trigger for the session
GetTrigger ==
    /\ user_sessions["s1"].popup_counter < MaxTriggers
    /\ \E question_index \in { 1 }, label \in RouteLabels :
          get_trigger("s1", question_index, label)
    /\ UNCHANGED << clock, generation, trigger_session, sheets_logger, performance_log,
                    personalized_groq_generator, tag_picks, datasetVars, selectorVars,
                    trackerVars, threads, ended_sessions, meterVars, difficultyVars,
                    profilerVars >>

\* POST /api/submit-response for the session
AnswerTrigger ==
    /\ user_sessions["s1"].responses < MaxAnswers
    /\ \E request \in RouteRequests :
          submit_response("s1", request, "ok")
    /\ UNCHANGED << clock, meterVars,
                    generation, trigger_session, delivery, performance_log,
                    personalized_groq_generator, tag_picks, datasetVars, selectorVars,
                    trackerVars, threads, ended_sessions, difficultyVars, profilerVars >>

NextRoutes == AssessPersonality \/ GetTrigger \/ AnswerTrigger

SpecRoutes == InitRoutes /\ [][NextRoutes]_vars


(***************************************************************************)
(* C36: while a session's personality assessment is not completed,         *)
(* get_trigger and submit_response answer with status 400 and leave the    *)
(* session and the delivery as they were; a session whose                  *)
(* personality_completed is false has its three meters at 0, an empty      *)
(* difficulty window, no response logged, an empty trigger history, no     *)
(* triggered sentence and popup_counter 0.                                 *)
(***************************************************************************)
Pending(sessions) ==
    { session_id \in DOMAIN sessions : ~sessions[session_id].personality_completed }

Untouched(session) ==
    /\ session.meter_state.fear_meter = 0
    /\ session.meter_state.thought_meter = 0
    /\ session.meter_state.frustration_meter = 0
    /\ session.performance_window = << >>
    /\ session.responses = 0
    /\ DOMAIN session.trigger_history = {}
    /\ session.triggered_sentences = << >>
    /\ session.popup_counter = 0

GatedRoutes == { "get_trigger", "submit_response" }

C36_PendingSessionUntouched ==
    [][ /\ \A session_id \in Pending(user_sessions) :
              Untouched(user_sessions[session_id])
        /\ \A session_id \in Pending(user_sessions') :
              Untouched(user_sessions'[session_id])
        /\ (reply'.route \in GatedRoutes /\ reply'.session_id \in Pending(user_sessions))
              => /\ reply'.status = 400
                 /\ user_sessions' = user_sessions
                 /\ delivery' = delivery ]_vars

\* get_trigger has been refused for the pending session
C36_Witness ==
    /\ reply.route = "get_trigger"
    /\ reply.status = 400
    /\ "s1" \in Pending(user_sessions)


(***************************************************************************)
(* C39: after every accepted submit_response the session's                 *)
(* current_difficulty is the difficulty controller's multiplier for the    *)
(* current window, one of 0.80, 0.90, 1.0, 1.10 and 1.15 whatever seed the *)
(* personality recommendation had stored, and the value of every trigger   *)
(* delivered later is the popup's value scaled by that multiplier.         *)
(***************************************************************************)
Multipliers == { 80, 90, 100, 110, 115 }

DifficultySeeds == { 30, 40, 50, 55, 70, 85 }

\* the unscaled payloads get_next_trigger can take for a label
Offered(session, label) ==
    { DatasetTrigger(DatasetPopups(label)[i]) : i \in 1..Len(DatasetPopups(label)) }
      \cup { generated.trigger :
               generated \in { g \in get_chatgpt_trigger(TRUE, session, label, FALSE) :
                                 g.found } }

\* the delivered trigger is an offered payload with its value scaled
ScaledBy(trigger, session, label, multiplier) ==
    \E payload \in Offered(session, label) :
        /\ payload.text = trigger.text
        /\ payload.type = trigger.type
        /\ trigger.value = (payload.value * multiplier) \div 2

Served(route) ==
    /\ reply'.route = route
    /\ reply'.status = 200
    /\ reply'.session_id \in DOMAIN user_sessions

C39_MultiplierScalesTriggers ==
    [][ /\ Served("submit_response") =>
              /\ user_sessions'[reply'.session_id].current_difficulty =
                    get_difficulty_adjustment(
                        user_sessions'[reply'.session_id].performance_window)
              /\ user_sessions'[reply'.session_id].current_difficulty \in Multipliers
        /\ ( /\ Served("get_trigger")
             /\ delivery'.source # "none"
             /\ user_sessions[reply'.session_id].responses > 0 ) =>
              ScaledBy(delivery'.trigger, user_sessions[reply'.session_id],
                       delivery'.label,
                       get_difficulty_adjustment(
                           user_sessions[reply'.session_id].performance_window)) ]_vars


\* what holds of the difficulty in every step: an accepted submit_response
\* leaves the controller's multiplier for the new window in
\* current_difficulty
DifficultyAfterSubmit ==
    [][ Served("submit_response") =>
          /\ user_sessions'[reply'.session_id].current_difficulty =
                get_difficulty_adjustment(
                    user_sessions'[reply'.session_id].performance_window)
          /\ user_sessions'[reply'.session_id].current_difficulty \in Multipliers ]_vars

\* and a delivered trigger is scaled by the current_difficulty the session
\* has when get_trigger is called, a multiplier or a seed
ScaledByCurrentDifficulty ==
    [][ (Served("get_trigger") /\ delivery'.source # "none") =>
          /\ ScaledBy(delivery'.trigger, user_sessions[reply'.session_id],
                      delivery'.label,
                      user_sessions[reply'.session_id].current_difficulty)
          /\ user_sessions[reply'.session_id].current_difficulty
                \in Multipliers \cup DifficultySeeds ]_vars

\* a personality submission accepted after an answer puts the seed back
Reseeded ==
    /\ reply.route = "get_trigger"
    /\ reply.status = 200
    /\ delivery.source # "none"
    /\ user_sessions["s1"].responses > 0
    /\ user_sessions["s1"].current_difficulty \in DifficultySeeds


(***************************************************************************)
(* C37: within one session, a trigger that get_next_trigger delivers from  *)
(* the dataset has a text that was not delivered earlier in the session,   *)
(* unless every popup text of the category's dataset has been delivered    *)
(* already.                                                                *)
(***************************************************************************)
DeliveredEarlier(text) == text \in SeqToSet(trigger_session.triggered_sentences)

DatasetExhausted(label) ==
    \A i \in 1..Len(DatasetPopups(label)) :
        DeliveredEarlier(DatasetPopups(label)[i].text)

C37_DatasetTextsNotRepeated ==
    [][ ( /\ delivery'.source = "dataset"
          /\ trigger_session'.popup_counter = trigger_session.popup_counter + 1
          /\ DeliveredEarlier(delivery'.trigger.text) )
        => DatasetExhausted(delivery'.label) ]_vars

\* the two popups of "fear" were delivered, each once, and the third
\* delivery, again from the dataset, repeats one of them
C37_Witness ==
    /\ Len(trigger_session.triggered_sentences) = 3
    /\ { trigger_session.triggered_sentences[1],
         trigger_session.triggered_sentences[2] } = { "t1", "t2" }
    /\ trigger_session.triggered_sentences[3] \in { "t1", "t2" }
    /\ trigger_session.trigger_source_counts.dataset = 3
    /\ delivery.source = "dataset"
    /\ delivery.label = "fear"


(***************************************************************************)
(* C38: select_popup returns None only when the category has no popup of   *)
(* the required type; when that type-filtered pool is not empty it returns *)
(* a popup of the pool, of the required type when one is given, whatever   *)
(* the personality vector and the selection history; and                   *)
(* select_popup_with_weighting on a pool with tags returns the first popup *)
(* of the pool, in pool order, that carries the chosen tag.                *)
(***************************************************************************)
\* the step is a call of select_popup
SelectCalled == selection' # selection \/ popup_selector' # popup_selector

\* the popups of a category that have the required type, in dataset order
TypeFiltered(category, required_type) ==
    LET of_type(popup) == required_type \in { "", popup.type }
    IN  IF category \in DOMAIN TriggerPopups
        THEN SelectSeq(TriggerPopups[category], of_type)
        ELSE << >>

IsFirstCarrier(popup_pool, popup, tag) ==
    \E i \in 1..Len(popup_pool) :
        /\ popup_pool[i] = popup
        /\ tag \in popup.tags
        /\ \A j \in 1..(i - 1) : tag \notin popup_pool[j].tags

\* every result of the weighted choice on the pool, made with the
\* selector's present history, is the first carrier of a tag that
\* chosen_tag can give, with the history that choice leaves
FirstCarrierChosen(popup_pool, vector) ==
    \A s \in select_popup_with_weighting(popup_pool, vector,
                                         popup_selector.trait_weighting, clock) :
        \E pick \in chosen_tag(PoolTags(popup_pool), vector,
                               popup_selector.trait_weighting, clock) :
            /\ IsFirstCarrier(popup_pool, s.popup, pick.tag)
            /\ s.weighting = pick.weighting

\* the pool the call hands to the weighted choice: the popups left by the
\* recency filter (all of the typed pool when it leaves none) that carry a
\* tag of the personality
PersonalityMatches ==
    LET typed == TypeFiltered(selection'.category, selection'.required_type)
        recent == _filter_recent(popup_selector, typed, clock)
        available == IF recent = << >> THEN typed ELSE recent
        tags == get_tags_from_personality(selection'.vector, selection'.category)
        overlaps(popup) == popup.tags \cap tags # {}
    IN  SelectSeq(available, overlaps)

C38_PopupFromTypedPool ==
    [][ SelectCalled =>
          /\ selection'.popup = NoPopup
                <=> TypeFiltered(selection'.category, selection'.required_type) = << >>
          /\ selection'.popup # NoPopup =>
                /\ \E i \in 1..Len(TypeFiltered(selection'.category,
                                                selection'.required_type)) :
                      TypeFiltered(selection'.category,
                                   selection'.required_type)[i] = selection'.popup
                /\ selection'.required_type \in { "", selection'.popup.type }
          /\ PoolTags(TypeFiltered(selection'.category, selection'.required_type)) # {}
                => FirstCarrierChosen(TypeFiltered(selection'.category,
                                                   selection'.required_type),
                                      selection'.vector)
          /\ Len(PersonalityMatches) >= 2
                => \E tag \in PoolTags(PersonalityMatches) :
                      IsFirstCarrier(PersonalityMatches, selection'.popup, tag)
       ]_vars

\* a call for "fear" without a required type returned the third popup,
\* the first of the pool that carries needs_calm, after earlier calls
C38_Witness ==
    /\ selection.category = "fear"
    /\ selection.required_type = ""
    /\ selection.vector # EmptyVector
    /\ selection.popup.text = "t3"
    /\ Selections(popup_selector) >= 2

====
